---- MODULE Spec2Model ----
(***************************************************************************)
(* Dynamic Image Transformation for Amazon CloudFront: bucket resolution   *)
(* of the request resolver (ImageRequest.parseImageBucket) and the edit    *)
(* pipeline of the image handler (ImageHandler.process / applyEdits).      *)
(***************************************************************************)
EXTENDS Integers, Sequences, FiniteSets, TLC

VARIABLES
    \* ---- request resolver (parseImageBucket) ----
    sourceBuckets,   \* AllowedBucketSet: SOURCE_BUCKETS in configuration order
    event,           \* the inbound event: path segments and decoded body bucket
    requestType,     \* RequestTypes value handed to parseImageBucket
    bucketResult,    \* what parseImageBucket returned or threw
    bpc,             \* position of the resolver: "call" | "returned"
    \* ---- edit pipeline (ImageHandler.process) ----
    pc,              \* position inside process
    imageRequestInfo,\* the request record; edits is the ordered mapping
    received,        \* the request as it was handed to process
    pages,           \* metadata.pages of the source bytes
    animated,        \* options.animated
    image,           \* the current sharp handle
    editIdx,         \* position of the for..in loop of applyEdits
    log,             \* Image Engine / Vision Detector / Storage calls issued
    result,          \* what process returned or threw
    caught,          \* the error the catch block of process received
    \* ---- geometry utilities (pure functions of the image handler) ----
    fnCall,          \* the function under evaluation and its arguments
    fnResult,        \* what it returned
    fpc,             \* "idle" | "call" | "returned"
    \* ---- deployment script (deploy.sh) ----
    args,            \* "$@": the argument list the script was started with
    shifted,         \* number of arguments the parse loop has shifted away
    COMMAND,         \* deploy | bootstrap | diff | destroy | synth
    ENVIRONMENT,     \* dev | prod
    CONFIRMED,       \* whether --confirm was seen
    AWS_PROFILE,     \* profile every aws and cdk command is run against
    ENV_FILE,        \* environment file of the selected environment
    ran,             \* external commands the script has run, in order
    exitStatus,      \* <<>> while running, <<status>> once the script exited
    dpc              \* position inside the script

bucketVars == <<sourceBuckets, event, requestType, bucketResult, bpc>>
pipeVars == <<pc, imageRequestInfo, received, pages, animated, image, editIdx, log, result,
              caught>>
fnVars == <<fnCall, fnResult, fpc>>
deployVars == <<args, shifted, COMMAND, ENVIRONMENT, CONFIRMED, AWS_PROFILE, ENV_FILE,
                ran, exitStatus, dpc>>
vars == <<sourceBuckets, event, requestType, bucketResult, bpc,
          pc, imageRequestInfo, received, pages, animated, image, editIdx, log, result,
          caught,
          fnCall, fnResult, fpc,
          args, shifted, COMMAND, ENVIRONMENT, CONFIRMED, AWS_PROFILE, ENV_FILE,
          ran, exitStatus, dpc>>

Undefined == "undefined"

(***************************************************************************)
(* Bounds                                                                  *)
(***************************************************************************)
MaxSegments == 3
MaxBuckets == 2
MaxEdits == 2
MaxChars == 4

(***************************************************************************)
(* Generic helpers                                                         *)
(***************************************************************************)
SeqsUpTo(S, n) == UNION {[1..k -> S] : k \in 0..n}

NoDupSeqsUpTo(S, n) == {s \in SeqsUpTo(S, n) : \A i, j \in 1..Len(s) : i # j => s[i] # s[j]}

Includes(s, x) == \E i \in 1..Len(s) : s[i] = x

\* JavaScript objects are functions whose domain is the set of properties
\* they have; an undefined property is one the object does not have.
Has(obj, f) == f \in DOMAIN obj

(***************************************************************************)
(* Status codes and errors                                                 *)
(***************************************************************************)
BAD_REQUEST == 400
FORBIDDEN == 403
NOT_FOUND == 404
INTERNAL_SERVER_ERROR == 500

ImageHandlerError(status, code) == [ok |-> FALSE, status |-> status, code |-> code, value |-> Undefined]

\* a plain Error thrown by the Image Engine, the Vision Detector or Storage
\* Fetch; the message is the sequence of phrases it contains
Error(message) ==
    [ok |-> FALSE, status |-> 0, code |-> "Error", value |-> Undefined, message |-> message]

\* error instanceof ImageHandlerError
IsImageHandlerError(error) == ~Has(error, "message")

\* error.message.includes(pattern)
MessageIncludes(error, pattern) == Includes(error.message, pattern)

\* mutant: the default error replaces whatever was thrown
handleErrorAlwaysDefault(error, defaultError, errorMappings) == defaultError

handleError(error, defaultError, errorMappings) ==
    IF IsImageHandlerError(error) THEN error
    ELSE LET hits == {i \in 1..Len(errorMappings) : MessageIncludes(error, errorMappings[i].pattern)}
         IN IF hits # {}
            THEN LET first == CHOOSE i \in hits : \A j \in hits : i <= j
                 IN ImageHandlerError(errorMappings[first].statusCode, errorMappings[first].errorType)
            ELSE defaultError

Returned(v) == [ok |-> TRUE, status |-> 200, code |-> "", value |-> v]

\* nothing returned or thrown yet
NoResult == [ok |-> FALSE, status |-> 0, code |-> "", value |-> Undefined]

(***************************************************************************)
(* Request resolver: parseImageBucket                                      *)
(*                                                                         *)
(* A path is the sequence of its "/"-separated segments; a segment is the  *)
(* sequence of its tokens, so that "s3:test-bucket" is <<"s3:",            *)
(* "test-bucket">> and "filters:grayscale():rotate(180)" is a filter       *)
(* segment with a chained second filter.                                   *)
(***************************************************************************)
Buckets == {"allowedBucket001", "test-bucket", "non-test-bucket"}

RequestTypes == {"Default", "Thumbor", "Custom"}

S3Segment(b) == <<"s3:", b>>

Segments ==
    {S3Segment(b) : b \in Buckets} \cup
    { <<"filters:", "grayscale()">>,
      <<"filters:", "grayscale()", ":", "rotate(180)">>,
      <<"test-image-001.jpg">> }

Paths == SeqsUpTo(Segments, MaxSegments)

AllowLists == NoDupSeqsUpTo(Buckets, MaxBuckets)

\* e.startsWith("s3:")
StartsWithS3(seg) == Len(seg) >= 1 /\ seg[1] = "s3:"

\* e.replace("s3:", "")
StripS3(seg) == seg[2]

\* the names of the s3: segments of the path, in path order
S3Names(path) ==
    LET s3segs == SelectSeq(path, StartsWithS3)
    IN [i \in 1..Len(s3segs) |-> StripS3(s3segs[i])]

CannotAccessBucket == ImageHandlerError(FORBIDDEN, "ImageBucket::CannotAccessBucket")

CannotFindBucket == ImageHandlerError(NOT_FOUND, "ImageBucket::CannotFindBucket")

\* mutant: an explicit bucket that is not allowed is replaced by the default bucket
ParseDefaultBucketFallback(ev, allowed) ==
    IF ev.bucket # Undefined /\ Includes(allowed, ev.bucket) THEN Returned(ev.bucket)
    ELSE IF Len(allowed) > 0 THEN Returned(allowed[1]) ELSE CannotFindBucket

\* mutant: the explicit bucket is returned without consulting the allow-list
ParseDefaultBucketUnchecked(ev, allowed) ==
    IF ev.bucket # Undefined THEN Returned(ev.bucket)
    ELSE IF Len(allowed) > 0 THEN Returned(allowed[1]) ELSE CannotFindBucket

ParseDefaultBucket(ev, allowed) ==
    IF ev.bucket # Undefined
    THEN IF Includes(allowed, ev.bucket) THEN Returned(ev.bucket) ELSE CannotAccessBucket
    ELSE IF Len(allowed) > 0 THEN Returned(allowed[1]) ELSE CannotFindBucket

\* mutant: the first s3: occurrence decides, allowed or not
ParsePathBucketFirstOccurrence(ev, allowed) ==
    LET named == S3Names(ev.path)
    IN IF Len(named) > 0
       THEN IF Includes(allowed, named[1]) THEN Returned(named[1])
            ELSE IF Len(allowed) > 0 THEN Returned(allowed[1]) ELSE CannotAccessBucket
       ELSE IF Len(allowed) > 0 THEN Returned(allowed[1]) ELSE CannotFindBucket

\* mutant: s3: segments that are all outside the allow-list are an access error
ParsePathBucketStrict(ev, allowed) ==
    LET named == S3Names(ev.path)
        IsAllowed(b) == Includes(allowed, b)
        potentialBucket == SelectSeq(named, IsAllowed)
    IN IF Len(potentialBucket) > 0 THEN Returned(potentialBucket[1])
       ELSE IF Len(named) > 0 THEN CannotAccessBucket
       ELSE IF Len(allowed) > 0 THEN Returned(allowed[1])
       ELSE CannotFindBucket

\* mutant: without a default bucket the answer is the default bucket slot itself
ParsePathBucketNoNotFound(ev, allowed) ==
    LET named == S3Names(ev.path)
        IsAllowed(b) == Includes(allowed, b)
        potentialBucket == SelectSeq(named, IsAllowed)
    IN IF Len(potentialBucket) > 0 THEN Returned(potentialBucket[1])
       ELSE IF Len(allowed) > 0 THEN Returned(allowed[1])
       ELSE Returned(Undefined)

\* mutant: an empty allow-list is always reported as a missing bucket
ParsePathBucketAlwaysNotFound(ev, allowed) ==
    LET named == S3Names(ev.path)
        IsAllowed(b) == Includes(allowed, b)
        potentialBucket == SelectSeq(named, IsAllowed)
    IN IF Len(potentialBucket) > 0 THEN Returned(potentialBucket[1])
       ELSE IF Len(allowed) > 0 THEN Returned(allowed[1])
       ELSE CannotFindBucket

ParsePathBucket(ev, allowed) ==
    LET named == S3Names(ev.path)
        IsAllowed(b) == Includes(allowed, b)
        potentialBucket == SelectSeq(named, IsAllowed)
    IN IF Len(potentialBucket) > 0 THEN Returned(potentialBucket[1])
       ELSE IF Len(allowed) > 0 THEN Returned(allowed[1])
       ELSE IF Len(named) > 0 THEN CannotAccessBucket
       ELSE CannotFindBucket

\* mutant: a request type that is not known is resolved like a path request
parseImageBucketLenient(ev, rt, allowed) ==
    IF rt = "Default" THEN ParseDefaultBucket(ev, allowed)
    ELSE ParsePathBucket(ev, allowed)

parseImageBucket(ev, rt, allowed) ==
    IF rt = "Default" THEN ParseDefaultBucket(ev, allowed)
    ELSE IF rt \in {"Thumbor", "Custom"} THEN ParsePathBucket(ev, allowed)
    ELSE CannotFindBucket

\* the cases of parse-image-bucket.spec.ts, with the bucket each expects
ParseImageBucketTests ==
    LET both == <<"allowedBucket001", "allowedBucket002">>
        other == <<"allowedBucket003", "allowedBucket004">>
        withTest == <<"allowedBucket001", "test-bucket">>
        gray == <<"filters:", "grayscale()">>
        rot == <<"filters:", "rotate(180)">>
        chained == <<"filters:", "grayscale()", ":", "rotate(180)">>
        img == <<"test-image-001.jpg">>
        body(b) == [path |-> <<>>, bucket |-> b]
        path(p) == [path |-> p, bucket |-> Undefined]
    IN /\ parseImageBucket(body("allowedBucket001"), "Default", both) = Returned("allowedBucket001")
       /\ parseImageBucket(body("allowedBucket001"), "Default", other) = CannotAccessBucket
       /\ parseImageBucket(body(Undefined), "Default", both) = Returned("allowedBucket001")
       /\ parseImageBucket(path(<<gray, img>>), "Thumbor", both) = Returned("allowedBucket001")
       /\ parseImageBucket(path(<<gray, img>>), "Custom", both) = Returned("allowedBucket001")
       /\ parseImageBucket(path(<<gray, img>>), Undefined, both) = CannotFindBucket
       /\ parseImageBucket(path(<<gray, S3Segment("test-bucket"), img>>), "Thumbor", both)
              = Returned("allowedBucket001")
       /\ parseImageBucket(path(<<S3Segment("test-bucket"), gray, img>>), "Thumbor", withTest)
              = Returned("test-bucket")
       /\ parseImageBucket(path(<<S3Segment("non-test-bucket"), S3Segment("test-bucket"), img>>),
                           "Thumbor", withTest) = Returned("test-bucket")
       /\ parseImageBucket(path(<<gray, S3Segment("test-bucket"), img>>), "Thumbor", withTest)
              = Returned("test-bucket")
       /\ parseImageBucket(path(<<gray, img>>), "Thumbor", withTest) = Returned("allowedBucket001")
       /\ parseImageBucket(path(<<gray, rot, S3Segment("test-bucket"), img>>), "Thumbor", withTest)
              = Returned("test-bucket")
       /\ parseImageBucket(path(<<chained, S3Segment("test-bucket"), img>>), "Thumbor", withTest)
              = Returned("test-bucket")

(***************************************************************************)
(* Edit pipeline: the request                                              *)
(*                                                                         *)
(* edits is a JavaScript object: an ordered mapping whose for..in order is *)
(* the insertion order of its keys.  It is modelled as a sequence of       *)
(* [key, value] entries with pairwise different keys.  A sub-object such   *)
(* as resize is a function whose domain is the set of fields it has.       *)
(***************************************************************************)
GIF == "image/gif"
JPEG == "image/jpeg"

WEBP == "webp"
PNG == "png"

INSIDE == "inside"
COVER == "cover"

\* obj[f] = v
Set(obj, f, v) == [x \in DOMAIN obj \cup {f} |-> IF x = f THEN v ELSE obj[x]]

\* delete obj[f]
Delete(obj, f) == [x \in DOMAIN obj \ {f} |-> obj[x]]

\* the objects of R, and each of them with property f set to a value of S
WithOptional(R, f, S) == R \cup {Set(r, f, v) : r \in R, v \in S}

\* rotate values: undefined (filters:rotate()), null (strip metadata), degrees
RotateUndefined == [type |-> "undefined"]
RotateNull == [type |-> "null"]
RotateDegrees(n) == [type |-> "number", n |-> n]

RotateValues == {RotateUndefined, RotateNull, RotateDegrees(0), RotateDegrees(90)}

\* Numbers are fixed-point with one decimal digit: 2004 is 200.4 and a ratio
\* of 5 is 0.5.
\* Math.round(x)
Round(x) == ((x + 5) \div 10) * 10

\* Math.round(x * ratio)
RoundProduct(x, ratio) == ((x * ratio + 50) \div 100) * 10

\* resize values
ResizeValues ==
    { [width |-> 2004, height |-> 1000],
      [width |-> 0],
      [ratio |-> 5],
      [width |-> 3000, ratio |-> 5, fit |-> COVER],
      [width |-> 10, height |-> 10, ratio |-> 1] }

Bool(b) == [bool |-> b]

\* the edit keys of the model and the values each can carry
EditKeys ==
    {"resize", "rotate", "animated", "crop", "overlayWith", "smartCrop",
     "roundCrop", "contentModeration", "grayscale", "watermark"}

EditValues(k) ==
    CASE k = "resize" -> ResizeValues
      [] k = "rotate" -> RotateValues
      [] k = "animated" -> {Bool(TRUE), Bool(FALSE)}
      [] k = "crop" -> {[left |-> 0, top |-> 0, width |-> 10, height |-> 10],
                        [left |-> 0, top |-> 0, width |-> 201, height |-> 100]}
      [] k = "overlayWith" -> {[bucket |-> "allowedBucket001", key |-> "overlay.png"],
                               [bucket |-> "non-test-bucket", key |-> "overlay.png"],
                               [bucket |-> "allowedBucket001", key |-> "overlay.png",
                                options |-> [left |-> [type |-> "string", s |-> <<"a">>],
                                             top |-> [type |-> "string", s |-> <<"-", "1", "0", "p">>]]]}
      [] k = "smartCrop" -> {Bool(TRUE), [faceIndex |-> 1], [padding |-> 10]}
      [] k = "roundCrop" -> {Bool(TRUE), [rx |-> 0, ry |-> 300, top |-> 0 - 100, left |-> 0]}
      [] k = "contentModeration" -> {Bool(TRUE), Bool(FALSE)}
      [] OTHER -> {Bool(TRUE)}

Entries == UNION {{[key |-> k, value |-> v] : v \in EditValues(k)} : k \in EditKeys}

\* ordered mappings of at most n entries
EditMappings(n) ==
    {e \in SeqsUpTo(Entries, n) : \A i, j \in 1..Len(e) : i # j => e[i].key # e[j].key}

\* k in edits
HasKey(edits, k) == \E i \in 1..Len(edits) : edits[i].key = k

\* edits[k], for a key the mapping has
Get(edits, k) == edits[CHOOSE i \in 1..Len(edits) : edits[i].key = k].value

\* edits[k] = v: an existing key keeps its position, a new key goes last
Put(edits, k, v) ==
    IF HasKey(edits, k)
    THEN [i \in 1..Len(edits) |-> IF edits[i].key = k THEN [key |-> k, value |-> v] ELSE edits[i]]
    ELSE Append(edits, [key |-> k, value |-> v])


\* mutant: only a missing edits object counts as no edits
NoEditsOnlyAbsent(req) == ~Has(req, "edits")

\* !edits || !Object.keys(edits).length
NoEdits(req) == IF Has(req, "edits") THEN Len(req.edits) = 0 ELSE TRUE

OutputFormats == {WEBP, PNG}
Efforts == {4}
ContentTypes == {GIF, JPEG}
OriginalImages == {"image-bytes", "corrupt-bytes"}
\* metadata.pages of the opened source; 0 stands for a source that reports
\* no pages at all
PageCounts == {0, 1, 3}

Requests ==
    LET base == [ requestType : {"Default"},
                  bucket : {"allowedBucket001"},
                  key : {"test-image-001.jpg"},
                  contentType : ContentTypes,
                  originalImage : OriginalImages ]
    IN WithOptional(WithOptional(WithOptional(base,
           "edits", EditMappings(MaxEdits)),
           "outputFormat", OutputFormats),
           "effort", Efforts)

\* no request in progress
NoRequest == [requestType |-> Undefined]

(***************************************************************************)
(* Specification of the request resolver: every event, request type and    *)
(* allow-list within the bounds is handed to parseImageBucket once.        *)
(***************************************************************************)
Events == [path : Paths, bucket : Buckets \cup {Undefined}]

\* no handle
NoImage == [open |-> FALSE]

PipeIdle ==
    /\ pc = "idle"
    /\ imageRequestInfo = NoRequest
    /\ received = NoRequest
    /\ pages = 0
    /\ animated = FALSE
    /\ image = NoImage
    /\ editIdx = 0
    /\ log = <<>>
    /\ result = NoResult
    /\ caught = NoResult

\* no geometry function under evaluation
FnIdle ==
    /\ fnCall = [fn |-> Undefined]
    /\ fnResult = [fn |-> Undefined]
    /\ fpc = "idle"

\* the deployment script has not been started; the variables hold the
\* defaults the script assigns before it reads its arguments
DeployIdle ==
    /\ args = <<>>
    /\ shifted = 0
    /\ COMMAND = "deploy"
    /\ ENVIRONMENT = "dev"
    /\ CONFIRMED = FALSE
    /\ AWS_PROFILE = Undefined
    /\ ENV_FILE = Undefined
    /\ ran = <<>>
    /\ exitStatus = <<>>
    /\ dpc = "idle"

BucketInit ==
    /\ FnIdle
    /\ DeployIdle
    /\ sourceBuckets \in AllowLists
    /\ event \in Events
    /\ requestType \in RequestTypes \cup {Undefined}
    /\ bucketResult = NoResult
    /\ bpc = "call"
    /\ PipeIdle

ParseImageBucket ==
    /\ bpc = "call"
    /\ bucketResult' = parseImageBucket(event, requestType, sourceBuckets)
    /\ bpc' = "returned"
    /\ UNCHANGED <<sourceBuckets, event, requestType>>
    /\ UNCHANGED pipeVars
    /\ UNCHANGED fnVars
    /\ UNCHANGED deployVars

BucketNext == ParseImageBucket

BucketSpec == BucketInit /\ [][BucketNext]_vars

(***************************************************************************)
(* Edit pipeline: ImageHandler                                             *)
(*                                                                         *)
(* log is the sequence of calls issued to the Image Engine (sharp), the    *)
(* Vision Detector (Rekognition) and Storage Fetch (S3), in issue order.   *)
(* handle names the sharp instance that receives the call: "image" is the  *)
(* handle process works on, the others are throw-away instances.           *)
(***************************************************************************)
\* by names the step that issues the call: a function of the handler or the
\* edit key whose loop iteration issues it
Call(by, op, arg) == [by |-> by, op |-> op, arg |-> arg]

OnImage == [handle |-> "image"]

\* width and height that metadata() reports for the source, 200 x 100
SourceMetadata == [width |-> 2000, height |-> 1000]

\* the engine cannot decode the source bytes
Corrupt(req) == req.originalImage = "corrupt-bytes"

UnsupportedImage == Error(<<"Input buffer contains unsupported image format">>)

\* the allow-list of simple filter names
SHARP_EDIT_ALLOWLIST_ARRAY == <<"rotate", "grayscale", "resize", "extract", "trim">>

\* mutant: metadata is stripped only when there is no rotate edit at all
RotateIsNullWhenAbsent(req) ==
    Has(req, "edits") /\ ~HasKey(req.edits, "rotate")

\* edits && edits.rotate !== undefined && edits.rotate === null
RotateIsNull(req) ==
    Has(req, "edits") /\ HasKey(req.edits, "rotate") /\ Get(req.edits, "rotate") = RotateNull

\* mutant: every image is validated and opened with its metadata
instantiateSharpImageKeepMetadata(req, optAnimated) ==
    IF Corrupt(req)
    THEN [thrown |-> ImageHandlerError(BAD_REQUEST, "InstantiationError"),
          calls |-> <<Call("instantiateSharpImage", "metadata", [handle |-> "validation"])>>,
          image |-> NoImage]
    ELSE [thrown |-> NoResult,
          calls |-> <<Call("instantiateSharpImage", "metadata", [handle |-> "validation"]),
                      Call("instantiateSharpImage", "sharp", [animated |-> optAnimated, withMetadata |-> TRUE])>>,
          image |-> [open |-> TRUE, animated |-> optAnimated, withMetadata |-> TRUE]]

\* the outcome of instantiateSharpImage: the calls issued, the handle, and the
\* error thrown, if any
instantiateSharpImage(req, optAnimated) ==
    IF RotateIsNull(req)
    THEN [thrown |-> NoResult,
          calls |-> <<Call("instantiateSharpImage", "sharp", [animated |-> optAnimated, withMetadata |-> FALSE])>>,
          image |-> [open |-> TRUE, animated |-> optAnimated, withMetadata |-> FALSE]]
    ELSE IF Corrupt(req)
    THEN [thrown |-> handleError(UnsupportedImage,
                                 ImageHandlerError(BAD_REQUEST, "InstantiationError"), <<>>),
          calls |-> <<Call("instantiateSharpImage", "metadata", [handle |-> "validation"])>>,
          image |-> NoImage]
    ELSE [thrown |-> NoResult,
          calls |-> <<Call("instantiateSharpImage", "metadata", [handle |-> "validation"]),
                      Call("instantiateSharpImage", "sharp", [animated |-> optAnimated, withMetadata |-> TRUE])>>,
          image |-> [open |-> TRUE, animated |-> optAnimated, withMetadata |-> TRUE]]

convertImageFormatType(imageFormatType) ==
    CASE imageFormatType = "jpg" -> "jpg"
      [] imageFormatType = "jpeg" -> "jpeg"
      [] imageFormatType = PNG -> "png"
      [] imageFormatType = WEBP -> "webp"
      [] imageFormatType = "tiff" -> "tiff"
      [] imageFormatType = "heif" -> "heif"
      [] imageFormatType = "raw" -> "raw"
      [] imageFormatType = "gif" -> "gif"
      [] imageFormatType = "avif" -> "avif"
      [] OTHER -> Undefined

\* mutant: the format is converted without regard to effort
modifyImageOutputPlain(req) ==
    IF Has(req, "outputFormat")
    THEN [calls |-> <<Call("modifyImageOutput", "toFormat", [format |-> req.outputFormat])>>,
          thrown |-> NoResult]
    ELSE [calls |-> <<>>, thrown |-> NoResult]

\* the outcome of modifyImageOutput: the calls it issues on the handle
modifyImageOutput(req) ==
    IF Has(req, "outputFormat")
    THEN IF req.outputFormat = WEBP /\ Has(req, "effort")
         THEN [calls |-> <<Call("modifyImageOutput", "webp", [effort |-> req.effort])>>, thrown |-> NoResult]
         ELSE IF convertImageFormatType(req.outputFormat) = Undefined
         THEN [calls |-> <<>>,
               thrown |-> ImageHandlerError(INTERNAL_SERVER_ERROR,
                                            "UnsupportedOutputImageFormatException")]
         ELSE [calls |-> <<Call("modifyImageOutput", "toFormat", [format |-> convertImageFormatType(req.outputFormat)])>>,
               thrown |-> NoResult]
    ELSE [calls |-> <<>>, thrown |-> NoResult]

\* the errorMapping table of process
processErrorMapping ==
    << [pattern |-> "Image to composite must have same dimensions or smaller",
        statusCode |-> BAD_REQUEST, errorType |-> "BadRequest"],
       [pattern |-> "Bitstream not supported by this decoder",
        statusCode |-> BAD_REQUEST, errorType |-> "BadRequest"] >>

\* the catch block of process
ProcessCatch(error) ==
    handleError(error, ImageHandlerError(INTERNAL_SERVER_ERROR, "ProcessingFailure"),
                processErrorMapping)

\* the outcome of validateResizeInputs: the resize object as it leaves it and
\* whether InvalidResizeException is thrown
validateResizeInputs(resize) ==
    LET r1 == IF Has(resize, "width") /\ resize.width # 0
              THEN Set(resize, "width", Round(resize.width)) ELSE resize
        r2 == IF Has(r1, "height") /\ r1.height # 0
              THEN Set(r1, "height", Round(r1.height)) ELSE r1
    IN [resize |-> r2,
        thrown |-> IF \/ Has(r2, "width") /\ r2.width <= 0
                      \/ Has(r2, "height") /\ r2.height <= 0
                   THEN ImageHandlerError(BAD_REQUEST, "InvalidResizeException")
                   ELSE NoResult]


\* mutant: edits.resize is left as the request gave it
applyResizeSkipped(req) == [edits |-> req.edits, calls |-> <<>>, thrown |-> NoResult]

\* mutant: the default resize replaces the edits instead of joining them
applyResizeReplacesEdits(req) ==
    [edits |-> <<[key |-> "resize", value |-> [fit |-> INSIDE]]>>, calls |-> <<>>, thrown |-> NoResult]

\* the outcome of applyResize: the edits as it leaves them, the calls issued
\* and the error thrown, if any
applyResize(req) ==
    LET edits == req.edits IN
    IF ~HasKey(edits, "resize")
    THEN [edits |-> Put(edits, "resize", [fit |-> INSIDE]), calls |-> <<>>, thrown |-> NoResult]
    ELSE LET v == validateResizeInputs(Get(edits, "resize"))
             resize == v.resize
         IN IF v.thrown # NoResult
            THEN [edits |-> Put(edits, "resize", resize), calls |-> <<>>, thrown |-> v.thrown]
            ELSE IF Has(resize, "ratio") /\ resize.ratio # 0
            THEN LET given == /\ Has(resize, "width") /\ resize.width # 0
                              /\ Has(resize, "height") /\ resize.height # 0
                     dims == IF given THEN resize ELSE SourceMetadata
                     scaled == Set(Set(resize, "width", RoundProduct(dims.width, resize.ratio)),
                                   "height", RoundProduct(dims.height, resize.ratio))
                     noRatio == Delete(scaled, "ratio")
                     fitted == IF ~Has(noRatio, "fit") THEN Set(noRatio, "fit", INSIDE) ELSE noRatio
                 IN IF ~given /\ Corrupt(req)
                    THEN [edits |-> Put(edits, "resize", resize),
                          calls |-> <<Call("applyResize", "metadata", OnImage)>>,
                          thrown |-> UnsupportedImage]
                    ELSE [edits |-> Put(edits, "resize", fitted),
                          calls |-> IF given THEN <<>> ELSE <<Call("applyResize", "metadata", OnImage)>>,
                          thrown |-> NoResult]
            ELSE [edits |-> Put(edits, "resize", resize), calls |-> <<>>, thrown |-> NoResult]

\* mutant: no edit is ever skipped
skipEditNever(edit, isAnimation) == FALSE

\* isAnimation && ["rotate", "smartCrop", "roundCrop", "contentModeration"].includes(edit)
skipEdit(edit, isAnimation) ==
    isAnimation /\ edit \in {"rotate", "smartCrop", "roundCrop", "contentModeration"}

(***************************************************************************)
(* Geometry utilities: strings and numbers                                 *)
(*                                                                         *)
(* A string is the sequence of its characters.  A number a computation may *)
(* fail to produce is NaN or Number(n).                                    *)
(***************************************************************************)
NaN == [nan |-> TRUE]
Number(n) == [nan |-> FALSE, n |-> n]

IsDigit(c) == c \in {"0", "1", "2", "3", "4", "5", "6", "7", "8", "9"}

DigitValue(c) ==
    CASE c = "0" -> 0 [] c = "1" -> 1 [] c = "2" -> 2 [] c = "3" -> 3 [] c = "4" -> 4
      [] c = "5" -> 5 [] c = "6" -> 6 [] c = "7" -> 7 [] c = "8" -> 8 [] c = "9" -> 9

DigitChar(d) == <<"0", "1", "2", "3", "4", "5", "6", "7", "8", "9">>[d + 1]

\* str.endsWith(c)
EndsWith(str, c) == IF Len(str) = 0 THEN FALSE ELSE str[Len(str)] = c

\* str.replace(c, ""): the first occurrence of c is removed
ReplaceFirst(str, c) ==
    IF ~Includes(str, c) THEN str
    ELSE LET k == CHOOSE i \in 1..Len(str) : str[i] = c /\ \A j \in 1..(i - 1) : str[j] # c
         IN SubSeq(str, 1, k - 1) \o SubSeq(str, k + 1, Len(str))

\* leading white space is skipped by parseInt
RECURSIVE TrimStart(_)
TrimStart(str) ==
    IF str = <<>> THEN str
    ELSE IF Head(str) = " " THEN TrimStart(Tail(str)) ELSE str

\* the number of decimal digits str starts with
RECURSIVE LeadingDigits(_)
LeadingDigits(str) ==
    IF str = <<>> THEN 0
    ELSE IF IsDigit(Head(str)) THEN 1 + LeadingDigits(Tail(str)) ELSE 0

\* the value of the first k characters of str, all decimal digits
RECURSIVE DecimalValue(_, _)
DecimalValue(str, k) ==
    IF k = 0 THEN 0 ELSE DecimalValue(str, k - 1) * 10 + DigitValue(str[k])

\* parseInt(str): optional sign, then the longest run of decimal digits; what
\* follows is ignored, and no digit at all gives NaN
parseInt(str) ==
    LET t == TrimStart(str)
        signed == IF t = <<>> THEN FALSE ELSE Head(t) \in {"-", "+"}
        body == IF signed THEN Tail(t) ELSE t
        k == LeadingDigits(body)
        value == DecimalValue(body, k)
    IN IF k = 0 THEN NaN
       ELSE IF signed /\ Head(t) = "-" THEN Number(0 - value) ELSE Number(value)

\* the decimal digits of a natural number
RECURSIVE Digits(_)
Digits(n) == IF n < 10 THEN <<DigitChar(n)>> ELSE Append(Digits(n \div 10), DigitChar(n % 10))

\* `${n}` for an integer n
NumberToString(n) == IF n < 0 THEN <<"-">> \o Digits(0 - n) ELSE Digits(n)

\* an offset option of the overlay: undefined, a string or a number
SizeUndefined == [type |-> "undefined"]
SizeString(str) == [type |-> "string", s |-> str]
SizeNumber(n) == [type |-> "number", n |-> n]

\* mutant: a negative percentage is measured like a positive one, from the
\* near edge
calcOverlaySizeOptionNearEdge(editSize, imageSize, overlaySize) ==
    IF editSize.type = "undefined" THEN NaN
    ELSE LET str == IF editSize.type = "number" THEN NumberToString(editSize.n) ELSE editSize.s
         IN IF EndsWith(str, "p")
            THEN LET r == parseInt(ReplaceFirst(str, "p"))
                 IN IF r.nan THEN NaN ELSE Number((imageSize * r.n) \div 100)
            ELSE LET r == parseInt(str)
                 IN IF r.nan THEN NaN
                    ELSE IF r.n < 0 THEN Number(imageSize + r.n - overlaySize) ELSE r

\* calcOverlaySizeOption: \div rounds towards minus infinity, as Math.floor
calcOverlaySizeOption(editSize, imageSize, overlaySize) ==
    IF editSize.type = "undefined" THEN NaN
    ELSE LET str == IF editSize.type = "number" THEN NumberToString(editSize.n) ELSE editSize.s
         IN IF EndsWith(str, "p")
            THEN LET r == parseInt(ReplaceFirst(str, "p"))
                 IN IF r.nan THEN NaN
                    ELSE IF r.n < 0
                    THEN Number((imageSize * 100 + imageSize * r.n - overlaySize * 100) \div 100)
                    ELSE Number((imageSize * r.n) \div 100)
            ELSE LET r == parseInt(str)
                 IN IF r.nan THEN NaN
                    ELSE IF r.n < 0 THEN Number(imageSize + r.n - overlaySize) ELSE r

\* mutant: the overlay is fetched from whatever bucket the edit names
getOverlayImageUnchecked(overlayWith, allowed) ==
    [calls |-> <<Call("overlayWith", "getObject", [bucket |-> overlayWith.bucket, key |-> overlayWith.key]),
                 Call("overlayWith", "toBuffer", [handle |-> "overlay"])>>,
     thrown |-> NoResult]

\* getAllowedSourceBuckets().includes(bucket), then the fetch and the sizing
\* of the overlay
getOverlayImage(overlayWith, allowed) ==
    IF ~Includes(allowed, overlayWith.bucket)
    THEN [calls |-> <<>>, thrown |-> ImageHandlerError(FORBIDDEN, "ImageBucket::CannotAccessBucket")]
    ELSE [calls |-> <<Call("overlayWith", "getObject", [bucket |-> overlayWith.bucket, key |-> overlayWith.key]),
                      Call("overlayWith", "toBuffer", [handle |-> "overlay"])>>,
          thrown |-> NoResult]

\* a read of the handle (metadata or toBuffer) fails when the bytes are corrupt
ReadOutcome(req, calls) ==
    IF Corrupt(req)
    THEN [calls |-> <<calls[1]>>, thrown |-> UnsupportedImage]
    ELSE [calls |-> calls, thrown |-> NoResult]

\* width and height that sharp(overlay).metadata() reports for the sized
\* overlay, 20 x 10
OverlayMetadata == [width |-> 200, height |-> 100]

\* a dimension of the metadata, in pixels
Pixels(x) == x \div 10

\* options.left or options.top as it is handed to calcOverlaySizeOption
OptionOrUndefined(options, f) == IF Has(options, f) THEN options[f] ELSE SizeUndefined

\* the descriptor handed to composite: { ...options, input: overlay }, with
\* left and top overwritten by their resolved value when it is not NaN
overlayOption(overlayWith, imageMetadata) ==
    IF ~Has(overlayWith, "options") THEN [input |-> "overlay"]
    ELSE LET options == overlayWith.options
             spread == Set(options, "input", "overlay")
             left == calcOverlaySizeOption(OptionOrUndefined(options, "left"),
                                           Pixels(imageMetadata.width), Pixels(OverlayMetadata.width))
             withLeft == IF ~left.nan THEN Set(spread, "left", SizeNumber(left.n)) ELSE spread
             top == calcOverlaySizeOption(OptionOrUndefined(options, "top"),
                                          Pixels(imageMetadata.height), Pixels(OverlayMetadata.height))
         IN IF ~top.nan THEN Set(withLeft, "top", SizeNumber(top.n)) ELSE withLeft

\* metadata() of the throw-away instance reports the dimensions of its input
applyOverlayWith(req, allowed) ==
    IF Corrupt(req) THEN ReadOutcome(req, <<Call("overlayWith", "metadata", OnImage)>>)
    ELSE LET overlayWith == Get(req.edits, "overlayWith")
             overlay == getOverlayImage(overlayWith, allowed)
             before == <<Call("overlayWith", "metadata", OnImage), Call("overlayWith", "toBuffer", OnImage),
                         Call("overlayWith", "metadata", [handle |-> "resized"])>>
         IN IF overlay.thrown # NoResult
            THEN [calls |-> before, thrown |-> overlay.thrown]
            ELSE [calls |-> before \o overlay.calls
                              \o <<Call("overlayWith", "metadata", [handle |-> "overlay"]),
                                   Call("overlayWith", "composite",
                                        overlayOption(overlayWith, SourceMetadata))>>,
                  thrown |-> NoResult]

\* metadata.format of the current image
SourceFormat(req) == IF req.contentType = GIF THEN "gif" ELSE "jpeg"

\* the outcome of getRekognitionCompatibleImage: the calls issued for the edit
\* named by, the format before the conversion and imageBuffer.info
getRekognitionCompatibleImage(req, by) ==
    LET format == SourceFormat(req)
        compatible == format \in {"jpeg", "png"}
    IN [format |-> format,
        info |-> [format |-> IF compatible THEN format ELSE "png",
                  width |-> Pixels(SourceMetadata.width),
                  height |-> Pixels(SourceMetadata.height)],
        calls |-> <<Call(by, "toBuffer", OnImage), Call(by, "metadata", [handle |-> "reloaded"])>>
                      \o (IF compatible THEN <<>> ELSE <<Call(by, "png", OnImage)>>)
                      \o <<Call(by, "toBuffer", OnImage)>>]

\* Bounding boxes are fractions of the image in hundredths: 100 is 1.
\* the box of the whole image
FullBox == [height |-> 100, left |-> 0, top |-> 0, width |-> 100]

Face(left, top, width, height) ==
    [BoundingBox |-> [Height |-> height, Left |-> left, Top |-> top, Width |-> width]]

\* what detectModerationLabels answers in the pipeline
DetectModerationLabelsResponses ==
    { [ModerationLabels |-> <<>>],
      [ModerationLabels |-> <<[Name |-> "Violence"]>>] }

\* what detectFaces answers
DetectFacesResponses ==
    { [FaceDetails |-> <<>>],
      [FaceDetails |-> <<Face(25, 25, 50, 50)>>] }

\* mutant: every bound brought into [0, 1], the box not cut at the edges
handleBoundsUncut(response, faceIndex) ==
    LET raw == response.FaceDetails[faceIndex + 1].BoundingBox
    IN [bound \in DOMAIN raw |->
           IF raw[bound] < 0 THEN 0 ELSE IF raw[bound] > 100 THEN 100 ELSE raw[bound]]

\* handleBounds: the box of the face, every bound brought into [0, 1] and the
\* box cut at the right and bottom edge
handleBounds(response, faceIndex) ==
    LET raw == response.FaceDetails[faceIndex + 1].BoundingBox
        bounded == [bound \in DOMAIN raw |->
                       IF raw[bound] < 0 THEN 0 ELSE IF raw[bound] > 100 THEN 100 ELSE raw[bound]]
        cutWidth == IF bounded.Left + bounded.Width > 100
                    THEN Set(bounded, "Width", 100 - bounded.Left) ELSE bounded
    IN IF cutWidth.Top + cutWidth.Height > 100
       THEN Set(cutWidth, "Height", 100 - cutWidth.Top) ELSE cutWidth

\* the errorMapping table of getBoundingBox
getBoundingBoxErrorMapping ==
    << [pattern |-> "Cannot read property 'BoundingBox' of undefined",
        statusCode |-> BAD_REQUEST, errorType |-> "SmartCrop::FaceIndexOutOfRange"],
       [pattern |-> "Cannot read properties of undefined (reading 'BoundingBox')",
        statusCode |-> BAD_REQUEST, errorType |-> "SmartCrop::FaceIndexOutOfRange"] >>

\* response.FaceDetails[faceIndex] is undefined
NoSuchFace(response, faceIndex) ==
    faceIndex < 0 \/ faceIndex >= Len(response.FaceDetails)

\* mutant: an answer without faces is indexed like any other
getBoundingBoxAlwaysIndexed(response, faceIndex) ==
    IF NoSuchFace(response, faceIndex)
    THEN [box |-> FullBox,
          thrown |-> handleError(Error(<<"Cannot read properties of undefined (reading 'BoundingBox')">>),
                                 ImageHandlerError(INTERNAL_SERVER_ERROR, "SmartCrop::Error"),
                                 getBoundingBoxErrorMapping)]
    ELSE LET boundingBox == handleBounds(response, faceIndex)
         IN [box |-> [height |-> boundingBox.Height, left |-> boundingBox.Left,
                      top |-> boundingBox.Top, width |-> boundingBox.Width],
             thrown |-> NoResult]

\* the outcome of getBoundingBox on the answer of the detector: the box, or
\* the error thrown
getBoundingBox(response, faceIndex) ==
    IF Len(response.FaceDetails) <= 0
    THEN [box |-> FullBox, thrown |-> NoResult]
    ELSE IF NoSuchFace(response, faceIndex)
    THEN [box |-> FullBox,
          thrown |-> handleError(Error(<<"Cannot read properties of undefined (reading 'BoundingBox')">>),
                                 ImageHandlerError(INTERNAL_SERVER_ERROR, "SmartCrop::Error"),
                                 getBoundingBoxErrorMapping)]
    ELSE LET boundingBox == handleBounds(response, faceIndex)
         IN [box |-> [height |-> boundingBox.Height, left |-> boundingBox.Left,
                      top |-> boundingBox.Top, width |-> boundingBox.Width],
             thrown |-> NoResult]

\* mutant: the padded box is returned as computed, not fitted to the image
getCropAreaUnfitted(boundingBox, padding, boxSize) ==
    [left |-> (boundingBox.left * boxSize.width - padding * 100) \div 100,
     top |-> (boundingBox.top * boxSize.height - padding * 100) \div 100,
     width |-> (boundingBox.width * boxSize.width + padding * 2 * 100) \div 100,
     height |-> (boundingBox.height * boxSize.height + padding * 2 * 100) \div 100]

\* getCropArea, in pixels; \div rounds towards minus infinity, as Math.floor
getCropArea(boundingBox, padding, boxSize) ==
    LET left == (boundingBox.left * boxSize.width - padding * 100) \div 100
        top == (boundingBox.top * boxSize.height - padding * 100) \div 100
        extractWidth == (boundingBox.width * boxSize.width + padding * 2 * 100) \div 100
        extractHeight == (boundingBox.height * boxSize.height + padding * 2 * 100) \div 100
        left2 == IF left < 0 THEN 0 ELSE left
        top2 == IF top < 0 THEN 0 ELSE top
        maxWidth == boxSize.width - left2
        maxHeight == boxSize.height - top2
    IN [left |-> left2,
        top |-> top2,
        width |-> IF extractWidth > maxWidth THEN maxWidth ELSE extractWidth,
        height |-> IF extractHeight > maxHeight THEN maxHeight ELSE extractHeight]

\* extract refuses, when it is called, an area with a negative member
ExtractRejects(area) ==
    area.left < 0 \/ area.top < 0 \/ area.width < 0 \/ area.height < 0

InvalidExtract == Error(<<"Expected integer for width">>)

\* an area that is empty or reaches beyond the image is accepted by extract
\* when it is called; the engine reports it when the operations of the handle
\* are run.  The resolved resizes of the model never widen the image.
BadExtractArea(area) ==
    \/ area.width = 0
    \/ area.height = 0
    \/ area.left + area.width > Pixels(SourceMetadata.width)
    \/ area.top + area.height > Pixels(SourceMetadata.height)

ExtractAreaError == Error(<<"extract_area: bad extract area">>)

\* an extract the engine cannot run is among the calls issued
PendingBadExtract(issued) ==
    \E i \in 1..Len(issued) :
        /\ issued[i].op = "extract"
        /\ ~ExtractRejects(issued[i].arg)
        /\ BadExtractArea(issued[i].arg)

\* toBuffer on the handle runs the operations issued on it
RunsPipeline(call) == call.op = "toBuffer" /\ call.arg = OnImage

\* the outcome r of a step, given the calls issued before it: the first
\* toBuffer of the step fails when an extract that cannot be run is pending
AwaitPending(r, issued) ==
    LET runs == {i \in 1..Len(r.calls) : RunsPipeline(r.calls[i])}
    IN IF PendingBadExtract(issued) /\ runs # {}
       THEN [calls |-> SubSeq(r.calls, 1, CHOOSE i \in runs : \A j \in runs : i <= j),
             thrown |-> ExtractAreaError]
       ELSE r

\* edits.smartCrop === true || typeof edits.smartCrop === "object"
IsTrueOrObject(value) == IF Has(value, "bool") THEN value.bool ELSE TRUE

\* value.f ?? default, for an edit that is true or an object
FieldOr(value, f, default) == IF Has(value, f) THEN value[f] ELSE default

\* the outcome of applySmartCrop when the detector answers response
applySmartCrop(req, response) ==
    LET smartCrop == Get(req.edits, "smartCrop")
        compatible == getRekognitionCompatibleImage(req, "smartCrop")
        boundingBox == getBoundingBox(response, FieldOr(smartCrop, "faceIndex", 0))
        cropArea == getCropArea(boundingBox.box, FieldOr(smartCrop, "padding", 0), compatible.info)
        detected == compatible.calls
                        \o <<Call("smartCrop", "detectFaces", [image |-> "image", response |-> response])>>
    IN IF ~IsTrueOrObject(smartCrop) THEN [calls |-> <<>>, thrown |-> NoResult]
       ELSE IF Corrupt(req) THEN ReadOutcome(req, compatible.calls)
       ELSE IF boundingBox.thrown # NoResult THEN [calls |-> detected, thrown |-> boundingBox.thrown]
       ELSE IF ExtractRejects(cropArea)
       THEN [calls |-> Append(detected, Call("smartCrop", "extract", cropArea)),
             thrown |-> handleError(InvalidExtract,
                                    ImageHandlerError(BAD_REQUEST, "SmartCrop::PaddingOutOfBounds"), <<>>)]
       ELSE [calls |-> Append(detected, Call("smartCrop", "extract", cropArea))
                           \o (IF compatible.format # compatible.info.format
                               THEN <<Call("smartCrop", "toFormat", [format |-> compatible.format])>>
                               ELSE <<>>),
             thrown |-> NoResult]

\* param && param >= 0, for a parameter the edit may not have
validRoundCropParam(roundCrop, param) ==
    IF Has(roundCrop, param) THEN roundCrop[param] # 0 /\ roundCrop[param] >= 0 ELSE FALSE

Min(a, b) == IF a < b THEN a ELSE b

\* the ellipse of the mask: centre and radii, in tenths of a pixel
Ellipse(roundCrop, width, height) ==
    [width |-> width,
     height |-> height,
     cx |-> IF validRoundCropParam(roundCrop, "left") THEN roundCrop.left ELSE width \div 2,
     cy |-> IF validRoundCropParam(roundCrop, "top") THEN roundCrop.top ELSE height \div 2,
     rx |-> IF validRoundCropParam(roundCrop, "rx") THEN roundCrop.rx ELSE Min(width, height) \div 2,
     ry |-> IF validRoundCropParam(roundCrop, "ry") THEN roundCrop.ry ELSE Min(width, height) \div 2]

applyRoundCrop(req) ==
    LET roundCrop == Get(req.edits, "roundCrop")
    IN IF ~IsTrueOrObject(roundCrop) THEN [calls |-> <<>>, thrown |-> NoResult]
       ELSE ReadOutcome(req,
                <<Call("roundCrop", "toBuffer", OnImage),
                  Call("roundCrop", "composite",
                       [input |-> Ellipse(roundCrop, SourceMetadata.width, SourceMetadata.height),
                        blend |-> "dest-in"]),
                  Call("roundCrop", "toBuffer", OnImage),
                  Call("roundCrop", "sharp", [animated |-> FALSE, withMetadata |-> TRUE,
                                              handle |-> "roundCrop"]),
                  Call("roundCrop", "trim", OnImage)>>)

\* Math.ceil of a number given in tenths
Ceil(tenths) == 0 - ((0 - tenths) \div 10)

\* detectModerationLabels fails
DetectModerationLabelsFailure == [thrown |-> Error(<<"Rekognition is not reachable">>)]

\* mutant: the moderationLabels of the edit are not consulted
blurImageAnyLabel(contentModeration, foundContentLabels) ==
    LET blurValue == IF Has(contentModeration, "blur") THEN Ceil(contentModeration.blur) ELSE 50
    IN IF blurValue * 10 >= 3 /\ blurValue <= 1000 /\ Len(foundContentLabels.ModerationLabels) > 0
       THEN <<Call("contentModeration", "blur", [sigma |-> blurValue])>>
       ELSE <<>>

\* blurImage: the blur calls issued for the blur (in tenths) and the
\* moderationLabels of the edit, given the labels found; the loop over the
\* labels found breaks at the first one that is in moderationLabels
blurImage(contentModeration, foundContentLabels) ==
    LET blurValue == IF Has(contentModeration, "blur") THEN Ceil(contentModeration.blur) ELSE 50
        found == foundContentLabels.ModerationLabels
        hit == IF Has(contentModeration, "moderationLabels")
               THEN \E i \in 1..Len(found) : Includes(contentModeration.moderationLabels, found[i].Name)
               ELSE Len(found) > 0
    IN IF blurValue * 10 >= 3 /\ blurValue <= 1000 /\ hit
       THEN <<Call("contentModeration", "blur", [sigma |-> blurValue])>>
       ELSE <<>>

\* the outcome of applyContentModeration when the detector answers response
applyContentModeration(req, response) ==
    LET contentModeration == IF HasKey(req.edits, "contentModeration")
                             THEN Get(req.edits, "contentModeration") ELSE Bool(FALSE)
        compatible == getRekognitionCompatibleImage(req, "contentModeration")
        detected == Append(compatible.calls,
                           Call("contentModeration", "detectModerationLabels",
                                [image |-> "image",
                                 MinConfidence |-> FieldOr(contentModeration, "minConfidence", 75),
                                 response |-> response]))
    IN IF ~IsTrueOrObject(contentModeration) THEN [calls |-> <<>>, thrown |-> NoResult]
       ELSE IF Corrupt(req) THEN ReadOutcome(req, compatible.calls)
       ELSE IF Has(response, "thrown")
       THEN [calls |-> detected,
             thrown |-> handleError(response.thrown,
                                    ImageHandlerError(INTERNAL_SERVER_ERROR,
                                                      "Rekognition::DetectModerationLabelsError"),
                                    <<>>)]
       ELSE [calls |-> detected
                           \o blurImage(contentModeration, response)
                           \o (IF compatible.format # compatible.info.format
                               THEN <<Call("contentModeration", "toFormat", [format |-> compatible.format])>>
                               ELSE <<>>),
             thrown |-> NoResult]

\* the try of applyCrop sees what extract throws when it is called
applyCrop(req) ==
    LET crop == Get(req.edits, "crop")
    IN [calls |-> <<Call("crop", "extract", crop)>>,
        thrown |-> IF ExtractRejects(crop)
                   THEN ImageHandlerError(BAD_REQUEST, "Crop::AreaOutOfBounds")
                   ELSE NoResult]

\* mutant: rotate is applied only when its value is truthy
applyRotateTruthy(req) ==
    LET rotate == Get(req.edits, "rotate")
    IN [calls |-> IF rotate = RotateUndefined THEN <<Call("rotate", "autoOrient", OnImage)>>
                  ELSE IF rotate # RotateNull /\ rotate.n # 0
                  THEN <<Call("rotate", "rotate", [n |-> rotate.n])>>
                  ELSE <<>>,
        thrown |-> NoResult]

\* case "rotate" of applyEdits
applyRotate(req) ==
    LET rotate == Get(req.edits, "rotate")
    IN [calls |-> IF rotate = RotateUndefined THEN <<Call("rotate", "autoOrient", OnImage)>>
                  ELSE IF rotate # RotateNull THEN <<Call("rotate", "rotate", [n |-> rotate.n])>>
                  ELSE <<>>,
        thrown |-> NoResult]

\* mutant: the method named by the key is invoked whatever the allow-list says
applyAllowListedAlways(req, edit) ==
    [calls |-> <<Call(edit, edit, Get(req.edits, edit))>>,
     thrown |-> NoResult]

\* default case of applyEdits
applyAllowListed(req, edit) ==
    [calls |-> IF Includes(SHARP_EDIT_ALLOWLIST_ARRAY, edit)
               THEN <<Call(edit, edit, Get(req.edits, edit))>> ELSE <<>>,
     thrown |-> NoResult]

\* one iteration of the for..in loop of applyEdits
applyEdit(req, edit, isAnimation, allowed, labels, faces) ==
    IF skipEdit(edit, isAnimation) THEN [calls |-> <<>>, thrown |-> NoResult]
    ELSE CASE edit = "overlayWith" -> applyOverlayWith(req, allowed)
           [] edit = "smartCrop" -> applySmartCrop(req, faces)
           [] edit = "roundCrop" -> applyRoundCrop(req)
           [] edit = "contentModeration" -> applyContentModeration(req, labels)
           [] edit = "crop" -> applyCrop(req)
           [] edit = "animated" -> [calls |-> <<>>, thrown |-> NoResult]
           [] edit = "rotate" -> applyRotate(req)
           [] OTHER -> applyAllowListed(req, edit)

(***************************************************************************)
(* Specification of the edit pipeline: one request at a time goes through  *)
(* process; each action is one stretch of process between two awaits.      *)
(***************************************************************************)
BucketIdle ==
    /\ sourceBuckets = <<"allowedBucket001", "test-bucket">>
    /\ event = [path |-> <<>>, bucket |-> Undefined]
    /\ requestType = Undefined
    /\ bucketResult = NoResult
    /\ bpc = "idle"

Init ==
    /\ BucketIdle
    /\ PipeIdle
    /\ FnIdle
    /\ DeployIdle

\* process is called with a request
Receive ==
    /\ pc = "idle"
    /\ \E req \in Requests, pg \in PageCounts :
         /\ imageRequestInfo' = req
         /\ received' = req
         /\ pages' = pg
    /\ pc' = "process"
    /\ UNCHANGED <<animated, image, editIdx, log, result, caught>>
    /\ UNCHANGED bucketVars
    /\ UNCHANGED fnVars
    /\ UNCHANGED deployVars

\* errors of the engine that the table of process knows
BitstreamNotSupported == Error(<<"Bitstream not supported by this decoder">>)

CompositeTooLarge == Error(<<"Image to composite must have same dimensions or smaller">>)

\* what the engine may report when the operations issued are run at the
\* final toBuffer: a source it cannot decode for editing, and an overlay
\* larger than the image it is composited on
EngineFailures(issued) ==
    {BitstreamNotSupported}
        \cup (IF \E i \in 1..Len(issued) : issued[i].by = "overlayWith" /\ issued[i].op = "composite"
              THEN {CompositeTooLarge} ELSE {})

\* process throws: the catch block maps the error and rethrows it
Throw(error) ==
    /\ caught' = error
    /\ result' = ProcessCatch(error)
    /\ pc' = "done"

\* process, no edits: return the original bytes, or only convert the format
ProcessNoEdits ==
    /\ pc = "process"
    /\ NoEdits(imageRequestInfo)
    /\ IF Has(imageRequestInfo, "outputFormat")
       THEN LET inst == instantiateSharpImage(imageRequestInfo, imageRequestInfo.contentType = GIF)
                out == modifyImageOutput(imageRequestInfo)
            IN IF inst.thrown # NoResult
               THEN /\ Throw(inst.thrown)
                    /\ log' = log \o inst.calls
                    /\ image' = image
               ELSE IF out.thrown # NoResult
               THEN /\ Throw(out.thrown)
                    /\ log' = log \o inst.calls \o out.calls
                    /\ image' = inst.image
               ELSE /\ \E failure \in {NoResult} \cup EngineFailures(<<>>) :
                          IF failure = NoResult
                          THEN result' = Returned("output-bytes") /\ caught' = caught /\ pc' = "done"
                          ELSE Throw(failure)
                    /\ log' = log \o inst.calls \o out.calls \o <<Call("process", "toBuffer", OnImage)>>
                    /\ image' = inst.image
       ELSE /\ result' = Returned(imageRequestInfo.originalImage) /\ caught' = caught
            /\ pc' = "done"
            /\ UNCHANGED <<log, image>>
    /\ animated' = (imageRequestInfo.contentType = GIF)
    /\ UNCHANGED <<imageRequestInfo, received, pages, editIdx>>
    /\ UNCHANGED bucketVars
    /\ UNCHANGED fnVars
    /\ UNCHANGED deployVars

\* process, with edits: decide options.animated and open the image
ProcessOpen ==
    /\ pc = "process"
    /\ ~NoEdits(imageRequestInfo)
    /\ LET edits == imageRequestInfo.edits
           optAnimated == IF HasKey(edits, "animated") THEN Get(edits, "animated").bool
                          ELSE imageRequestInfo.contentType = GIF
           inst == instantiateSharpImage(imageRequestInfo, optAnimated)
       IN /\ animated' = optAnimated
          /\ log' = log \o inst.calls
          /\ IF inst.thrown # NoResult
             THEN Throw(inst.thrown) /\ image' = image
             ELSE /\ image' = inst.image
                  /\ pc' = IF optAnimated THEN "pages" ELSE "applyResize"
                  /\ result' = result /\ caught' = caught
    /\ UNCHANGED <<imageRequestInfo, received, pages, editIdx>>
    /\ UNCHANGED bucketVars
    /\ UNCHANGED fnVars
    /\ UNCHANGED deployVars

\* mutant: only a source that reports no pages counts as a single page
SinglePageOnlyMissing(metadataPages) == metadataPages = 0

\* !metadata.pages || metadata.pages <= 1
SinglePage(metadataPages) == metadataPages = 0 \/ metadataPages <= 1

\* process: an animated request on a source without several pages is
\* reopened as a static image
CheckPages ==
    /\ pc = "pages"
    /\ IF Corrupt(imageRequestInfo)
       THEN /\ Throw(UnsupportedImage)
            /\ log' = Append(log, Call("process", "metadata", OnImage))
            /\ UNCHANGED <<animated, image>>
       ELSE IF SinglePage(pages)
       THEN LET inst == instantiateSharpImage(imageRequestInfo, FALSE)
            IN /\ animated' = FALSE
               /\ log' = Append(log, Call("process", "metadata", OnImage)) \o inst.calls
               /\ image' = inst.image
               /\ pc' = "applyResize"
               /\ result' = result /\ caught' = caught
       ELSE /\ log' = Append(log, Call("process", "metadata", OnImage))
            /\ pc' = "applyResize"
            /\ UNCHANGED <<animated, image, result, caught>>
    /\ UNCHANGED <<imageRequestInfo, received, pages, editIdx>>
    /\ UNCHANGED bucketVars
    /\ UNCHANGED fnVars
    /\ UNCHANGED deployVars

\* applyEdits: applyResize normalises edits.resize before the loop starts
ApplyResize ==
    /\ pc = "applyResize"
    /\ LET r == applyResize(imageRequestInfo)
       IN /\ imageRequestInfo' = Set(imageRequestInfo, "edits", r.edits)
          /\ log' = log \o r.calls
          /\ IF r.thrown # NoResult
             THEN Throw(r.thrown) /\ editIdx' = editIdx
             ELSE pc' = "edits" /\ editIdx' = 1 /\ result' = result /\ caught' = caught
    /\ UNCHANGED <<received, pages, animated, image>>
    /\ UNCHANGED bucketVars
    /\ UNCHANGED fnVars
    /\ UNCHANGED deployVars

\* applyEdits: one iteration of the loop over the keys of edits
ApplyEdit ==
    /\ pc = "edits"
    /\ editIdx <= Len(imageRequestInfo.edits)
    /\ LET edit == imageRequestInfo.edits[editIdx].key
       IN \E labels \in IF edit = "contentModeration" THEN DetectModerationLabelsResponses
                         ELSE {[ModerationLabels |-> <<>>]},
             faces \in IF edit = "smartCrop" THEN DetectFacesResponses ELSE {[FaceDetails |-> <<>>]} :
            LET r == AwaitPending(applyEdit(imageRequestInfo, edit, animated, sourceBuckets,
                                            labels, faces), log)
            IN /\ log' = log \o r.calls
               /\ IF r.thrown # NoResult
                  THEN Throw(r.thrown) /\ UNCHANGED <<editIdx, image>>
                  ELSE /\ editIdx' = editIdx + 1
                       /\ image' = IF edit = "roundCrop" /\ r.calls # <<>>
                                   THEN [open |-> TRUE, animated |-> FALSE, withMetadata |-> TRUE]
                                   ELSE image
                       /\ UNCHANGED <<pc, result, caught>>
    /\ UNCHANGED <<imageRequestInfo, received, pages, animated>>
    /\ UNCHANGED bucketVars
    /\ UNCHANGED fnVars
    /\ UNCHANGED deployVars

\* process: after the loop, modifyImageOutput
ModifyImageOutput ==
    /\ pc = "edits"
    /\ editIdx > Len(imageRequestInfo.edits)
    /\ LET out == modifyImageOutput(imageRequestInfo)
       IN /\ log' = log \o out.calls
          /\ IF out.thrown # NoResult
             THEN Throw(out.thrown)
             ELSE pc' = "toBuffer" /\ result' = result /\ caught' = caught
    /\ UNCHANGED <<imageRequestInfo, received, pages, animated, image, editIdx>>
    /\ UNCHANGED bucketVars
    /\ UNCHANGED fnVars
    /\ UNCHANGED deployVars

\* process: encode and return
ToBuffer ==
    /\ pc = "toBuffer"
    /\ log' = Append(log, Call("process", "toBuffer", OnImage))
    /\ IF Corrupt(imageRequestInfo)
       THEN Throw(UnsupportedImage)
       ELSE IF PendingBadExtract(log)
       THEN Throw(ExtractAreaError)
       ELSE \E failure \in {NoResult} \cup EngineFailures(log) :
               IF failure = NoResult
               THEN result' = Returned("output-bytes") /\ caught' = caught /\ pc' = "done"
               ELSE Throw(failure)
    /\ UNCHANGED <<imageRequestInfo, received, pages, animated, image, editIdx>>
    /\ UNCHANGED bucketVars
    /\ UNCHANGED fnVars
    /\ UNCHANGED deployVars

Next ==
    \/ Receive
    \/ ProcessNoEdits
    \/ ProcessOpen
    \/ CheckPages
    \/ ApplyResize
    \/ ApplyEdit
    \/ ModifyImageOutput
    \/ ToBuffer

Spec == Init /\ [][Next]_vars

(***************************************************************************)
(* Specification of the geometry utilities: every call within the bounds   *)
(* is evaluated once.                                                      *)
(***************************************************************************)
Chars == {"-", "0", "1", "p", "a"}

EditSizes ==
    {SizeUndefined}
        \cup {SizeString(str) : str \in SeqsUpTo(Chars, MaxChars)}
        \cup {SizeNumber(n) : n \in {0 - 110, 0 - 1, 0, 7, 150}}

ImageSizes == {100, 33}

OverlaySizes == {20, 7}

CalcOverlaySizeOptionCalls ==
    [fn : {"calcOverlaySizeOption"}, editSize : EditSizes,
     imageSize : ImageSizes, overlaySize : OverlaySizes]

\* raw bounds of a detected face, in hundredths: below 0, inside and above 1
RawBounds == {0 - 25, 0, 50, 100, 125}

GetBoundingBoxCalls ==
    [fn : {"getBoundingBox"},
     response : {[FaceDetails |-> <<>>]} \cup {[FaceDetails |-> <<Face(left, top, width, height)>>] :
                left, top, width, height \in RawBounds},
     faceIndex : {0, 1}]

\* boxes as getBoundingBox returns them: every bound in [0, 1], cut at the edges
ClampedBoxes ==
    {box \in [left : {0, 25, 50, 100}, top : {0, 25, 50, 100},
              width : {0, 25, 50, 100}, height : {0, 25, 50, 100}] :
        box.left + box.width <= 100 /\ box.top + box.height <= 100}

Paddings == {0 - 30, 0, 10, 200}

BoxSizes == {[width |-> 100, height |-> 50], [width |-> 33, height |-> 7]}

GetCropAreaCalls ==
    [fn : {"getCropArea"}, boundingBox : ClampedBoxes, padding : Paddings, boxSize : BoxSizes]

\* values of edits.contentModeration; blur is in tenths
ContentModerationValues ==
    {Bool(TRUE), Bool(FALSE)}
        \cup {[blur |-> blur] : blur \in {0 - 5, 0, 2, 10000, 10001}}
        \cup {[moderationLabels |-> <<>>],
              [moderationLabels |-> <<"Alcohol">>],
              [moderationLabels |-> <<"Violence", "Alcohol">>, blur |-> 605],
              [minConfidence |-> 0],
              [minConfidence |-> 90, moderationLabels |-> <<"Smoking">>, blur |-> 0]}

LabelsFound ==
    { [ModerationLabels |-> <<>>],
      [ModerationLabels |-> <<[Name |-> "Violence"]>>],
      [ModerationLabels |-> <<[Name |-> "Smoking"]>>],
      [ModerationLabels |-> <<[Name |-> "Alcohol"], [Name |-> "Violence"]>>],
      DetectModerationLabelsFailure }

ApplyContentModerationCalls ==
    [fn : {"applyContentModeration"},
     imageRequestInfo :
        [contentType : ContentTypes,
         originalImage : {"image-bytes"},
         edits : {<<>>, <<[key |-> "grayscale", value |-> Bool(TRUE)]>>}
                    \cup {<<[key |-> "contentModeration", value |-> value]>> :
                              value \in ContentModerationValues}],
     response : LabelsFound]

FnCalls ==
    CalcOverlaySizeOptionCalls \cup GetBoundingBoxCalls \cup GetCropAreaCalls
        \cup ApplyContentModerationCalls

FnInit ==
    /\ BucketIdle
    /\ PipeIdle
    /\ DeployIdle
    /\ fnCall \in FnCalls
    /\ fnResult = [fn |-> Undefined]
    /\ fpc = "call"

CalcOverlaySizeOption ==
    /\ fpc = "call"
    /\ fnCall.fn = "calcOverlaySizeOption"
    /\ fnResult' = calcOverlaySizeOption(fnCall.editSize, fnCall.imageSize, fnCall.overlaySize)
    /\ fpc' = "returned"
    /\ UNCHANGED fnCall
    /\ UNCHANGED bucketVars
    /\ UNCHANGED pipeVars
    /\ UNCHANGED deployVars

GetBoundingBox ==
    /\ fpc = "call"
    /\ fnCall.fn = "getBoundingBox"
    /\ fnResult' = getBoundingBox(fnCall.response, fnCall.faceIndex)
    /\ fpc' = "returned"
    /\ UNCHANGED fnCall
    /\ UNCHANGED bucketVars
    /\ UNCHANGED pipeVars
    /\ UNCHANGED deployVars

GetCropArea ==
    /\ fpc = "call"
    /\ fnCall.fn = "getCropArea"
    /\ fnResult' = getCropArea(fnCall.boundingBox, fnCall.padding, fnCall.boxSize)
    /\ fpc' = "returned"
    /\ UNCHANGED fnCall
    /\ UNCHANGED bucketVars
    /\ UNCHANGED pipeVars
    /\ UNCHANGED deployVars

ApplyContentModeration ==
    /\ fpc = "call"
    /\ fnCall.fn = "applyContentModeration"
    /\ fnResult' = applyContentModeration(fnCall.imageRequestInfo, fnCall.response)
    /\ fpc' = "returned"
    /\ UNCHANGED fnCall
    /\ UNCHANGED bucketVars
    /\ UNCHANGED pipeVars
    /\ UNCHANGED deployVars

FnNext ==
    \/ CalcOverlaySizeOption
    \/ GetBoundingBox
    \/ GetCropArea
    \/ ApplyContentModeration

FnSpec == FnInit /\ [][FnNext]_vars

(***************************************************************************)
(* Specification of the deployment script deploy.sh: one run of the        *)
(* script on an argument list, one action per section of the script.       *)
(***************************************************************************)
MaxArgs == 3

Commands == {"deploy", "bootstrap", "diff", "destroy", "synth"}

Environments == {"dev", "prod"}

\* the words an argument list is drawn from; "stage" stands for every word
\* the case statement does not know
Arguments == Commands \cup Environments \cup {"--confirm", "--help", "-h", "stage"}

\* statuses a failing external command can end with; set -e makes the
\* script exit with the status of the command that failed
FailureStatuses == {1, 2}

Ran(cmd, target) == [cmd |-> cmd, target |-> target]

\* exit n: the script stops and nothing further runs
Exit(status) ==
    /\ exitStatus' = <<status>>
    /\ dpc' = "exit"

\* set -e: a command that fails ends the script with the command's status
RunOrFail(cmd, target, next) ==
    /\ ran' = Append(ran, Ran(cmd, target))
    /\ \E ok \in BOOLEAN :
        IF ok
        THEN next
        ELSE \E status \in FailureStatuses : Exit(status)

ProfileOf(environment) ==
    IF environment = "dev" THEN "lumberscan-dev" ELSE "lumberscan-prod"

EnvFileOf(environment) ==
    IF environment = "dev" THEN ".env.dev" ELSE ".env.prod"

\* the confirmation check as written for deploy only
RequiresConfirmationDeployOnly(environment, command) ==
    environment = "prod" /\ command = "deploy"

\* the condition of the confirmation check
RequiresConfirmation(environment, command) ==
    environment = "prod" /\ (command = "deploy" \/ command = "destroy")

DeployInit ==
    /\ BucketIdle
    /\ PipeIdle
    /\ FnIdle
    /\ args \in SeqsUpTo(Arguments, MaxArgs)
    /\ shifted = 0
    /\ COMMAND = "deploy"
    /\ ENVIRONMENT = "dev"
    /\ CONFIRMED = FALSE
    /\ AWS_PROFILE = Undefined
    /\ ENV_FILE = Undefined
    /\ ran = <<>>
    /\ exitStatus = <<>>
    /\ dpc = "args"

\* one turn of the argument loop
ParseArgument ==
    /\ dpc = "args"
    /\ shifted < Len(args)
    /\ LET arg == args[shifted + 1] IN
        /\ COMMAND' = IF arg \in Commands THEN arg ELSE COMMAND
        /\ ENVIRONMENT' = IF arg \in Environments THEN arg ELSE ENVIRONMENT
        /\ CONFIRMED' = IF arg = "--confirm" THEN TRUE ELSE CONFIRMED
        /\ IF arg \in Commands \cup Environments \cup {"--confirm"}
           THEN /\ shifted' = shifted + 1
                /\ UNCHANGED <<exitStatus, dpc>>
           ELSE /\ Exit(IF arg \in {"--help", "-h"} THEN 0 ELSE 1)
                /\ UNCHANGED shifted
    /\ UNCHANGED <<args, AWS_PROFILE, ENV_FILE, ran>>
    /\ UNCHANGED bucketVars
    /\ UNCHANGED pipeVars
    /\ UNCHANGED fnVars

\* the argument loop ends; the profile and the environment file are chosen
SetProfile ==
    /\ dpc = "args"
    /\ shifted = Len(args)
    /\ AWS_PROFILE' = ProfileOf(ENVIRONMENT)
    /\ ENV_FILE' = EnvFileOf(ENVIRONMENT)
    /\ dpc' = "confirm"
    /\ UNCHANGED <<args, shifted, COMMAND, ENVIRONMENT, CONFIRMED, ran, exitStatus>>
    /\ UNCHANGED bucketVars
    /\ UNCHANGED pipeVars
    /\ UNCHANGED fnVars

\* the confirmation check
CheckConfirmation ==
    /\ dpc = "confirm"
    /\ IF RequiresConfirmation(ENVIRONMENT, COMMAND) /\ ~CONFIRMED
       THEN Exit(1)
       ELSE /\ dpc' = "env"
            /\ UNCHANGED exitStatus
    /\ UNCHANGED <<args, shifted, COMMAND, ENVIRONMENT, CONFIRMED, AWS_PROFILE, ENV_FILE, ran>>
    /\ UNCHANGED bucketVars
    /\ UNCHANGED pipeVars
    /\ UNCHANGED fnVars

\* the environment file is sourced when it exists
LoadEnvFile ==
    /\ dpc = "env"
    /\ \E exists \in BOOLEAN :
        IF exists
        THEN RunOrFail("source", ENV_FILE, dpc' = "aws" /\ UNCHANGED exitStatus)
        ELSE /\ dpc' = "aws"
             /\ UNCHANGED <<ran, exitStatus>>
    /\ UNCHANGED <<args, shifted, COMMAND, ENVIRONMENT, CONFIRMED, AWS_PROFILE, ENV_FILE>>
    /\ UNCHANGED bucketVars
    /\ UNCHANGED pipeVars
    /\ UNCHANGED fnVars

\* aws sts get-caller-identity decides whether the profile is usable
CheckAwsProfile ==
    /\ dpc = "aws"
    /\ \E configured \in BOOLEAN :
        IF configured
        THEN /\ ran' = ran \o <<Ran("aws sts get-caller-identity", AWS_PROFILE),
                                 Ran("aws sts get-caller-identity", AWS_PROFILE),
                                 Ran("aws configure get region", AWS_PROFILE)>>
             /\ dpc' = "command"
             /\ UNCHANGED exitStatus
        ELSE /\ ran' = Append(ran, Ran("aws sts get-caller-identity", AWS_PROFILE))
             /\ Exit(1)
    /\ UNCHANGED <<args, shifted, COMMAND, ENVIRONMENT, CONFIRMED, AWS_PROFILE, ENV_FILE>>
    /\ UNCHANGED bucketVars
    /\ UNCHANGED pipeVars
    /\ UNCHANGED fnVars

Bootstrap ==
    /\ dpc = "command"
    /\ COMMAND = "bootstrap"
    /\ RunOrFail("cdk bootstrap", AWS_PROFILE, Exit(0))
    /\ UNCHANGED <<args, shifted, COMMAND, ENVIRONMENT, CONFIRMED, AWS_PROFILE, ENV_FILE>>
    /\ UNCHANGED bucketVars
    /\ UNCHANGED pipeVars
    /\ UNCHANGED fnVars

Synth ==
    /\ dpc = "command"
    /\ COMMAND = "synth"
    /\ RunOrFail("cdk synth", AWS_PROFILE, Exit(0))
    /\ UNCHANGED <<args, shifted, COMMAND, ENVIRONMENT, CONFIRMED, AWS_PROFILE, ENV_FILE>>
    /\ UNCHANGED bucketVars
    /\ UNCHANGED pipeVars
    /\ UNCHANGED fnVars

\* npm run clean:install, for deploy and diff
Build ==
    /\ dpc = "command"
    /\ COMMAND \notin {"bootstrap", "synth"}
    /\ IF COMMAND = "deploy" \/ COMMAND = "diff"
       THEN RunOrFail("npm run clean:install", Undefined,
                      dpc' = "params" /\ UNCHANGED exitStatus)
       ELSE /\ dpc' = "params"
            /\ UNCHANGED <<ran, exitStatus>>
    /\ UNCHANGED <<args, shifted, COMMAND, ENVIRONMENT, CONFIRMED, AWS_PROFILE, ENV_FILE>>
    /\ UNCHANGED bucketVars
    /\ UNCHANGED pipeVars
    /\ UNCHANGED fnVars

\* the stack parameters are collected from the environment; signed URLs
\* switched on without key groups end the script
PrepareParameters ==
    /\ dpc = "params"
    /\ \E signedUrlsWithoutKeyGroups \in BOOLEAN :
        IF signedUrlsWithoutKeyGroups
        THEN Exit(1)
        ELSE /\ dpc' = "dispatch"
             /\ UNCHANGED exitStatus
    /\ UNCHANGED <<args, shifted, COMMAND, ENVIRONMENT, CONFIRMED, AWS_PROFILE, ENV_FILE, ran>>
    /\ UNCHANGED bucketVars
    /\ UNCHANGED pipeVars
    /\ UNCHANGED fnVars

\* case $COMMAND in deploy | diff | destroy
ExecuteCommand ==
    /\ dpc = "dispatch"
    /\ RunOrFail("cdk " \o COMMAND, AWS_PROFILE, Exit(0))
    /\ UNCHANGED <<args, shifted, COMMAND, ENVIRONMENT, CONFIRMED, AWS_PROFILE, ENV_FILE>>
    /\ UNCHANGED bucketVars
    /\ UNCHANGED pipeVars
    /\ UNCHANGED fnVars

DeployNext ==
    \/ ParseArgument
    \/ SetProfile
    \/ CheckConfirmation
    \/ LoadEnvFile
    \/ CheckAwsProfile
    \/ Bootstrap
    \/ Synth
    \/ Build
    \/ PrepareParameters
    \/ ExecuteCommand

DeploySpec == DeployInit /\ [][DeployNext]_vars

(***************************************************************************)
(* Properties of bucket resolution (checked under BucketSpec)              *)
(***************************************************************************)
PathRequest == requestType \in {"Thumbor", "Custom"}

\* positions of the path that hold an s3: segment
S3Positions == {i \in 1..Len(event.path) : StartsWithS3(event.path[i])}

\* positions of the path that hold an s3: segment naming an allowed bucket
AllowedPositions == {i \in S3Positions : Includes(sourceBuckets, event.path[i][2])}

FirstAllowedPosition == CHOOSE i \in AllowedPositions : \A j \in AllowedPositions : i <= j

FilterPositions == {i \in 1..Len(event.path) : event.path[i][1] = "filters:"}

\* C1: for THUMBOR and CUSTOM requests, if some s3: segment names an allowed
\* bucket, parseImageBucket returns the name of the first such segment in path
\* order, skipping earlier s3: segments that are not allowed, wherever the
\* filter segments sit.
C1_FirstAllowedSegment ==
    (bpc = "returned" /\ PathRequest /\ AllowedPositions # {})
        => bucketResult = Returned(event.path[FirstAllowedPosition][2])

\* C1 witness: an s3: segment that is not allowed precedes the allowed one, a
\* chained filter segment is in the path, and the bucket returned is not the
\* first entry of the allow-list.
C1_Witness ==
    /\ bpc = "returned" /\ PathRequest /\ AllowedPositions # {}
    /\ \E j \in S3Positions : j < FirstAllowedPosition
    /\ \E f \in FilterPositions : Len(event.path[f]) > 2
    /\ bucketResult.ok
    /\ bucketResult.value # sourceBuckets[1]

\* the request names no allowed bucket
NamesNoAllowedBucket ==
    \/ PathRequest /\ AllowedPositions = {}
    \/ requestType = "Default" /\ event.bucket = Undefined

\* C2: a request that names no allowed bucket (no s3: segment, only s3:
\* segments outside the allow-list, or a DEFAULT body without bucket field)
\* gets the first configured entry of a non-empty allow-list, without error.
C2_FallbackToFirstEntry ==
    (bpc = "returned" /\ NamesNoAllowedBucket /\ Len(sourceBuckets) > 0)
        => bucketResult = Returned(sourceBuckets[1])

\* C2 witness: the path names buckets, none of them allowed, and the first
\* configured entry of a two-entry allow-list is returned.
C2_Witness ==
    /\ bpc = "returned" /\ PathRequest
    /\ S3Positions # {} /\ AllowedPositions = {}
    /\ Len(sourceBuckets) = 2
    /\ bucketResult.ok /\ bucketResult.value = sourceBuckets[1]

\* C3: a DEFAULT request with an explicit bucket field gets that bucket when
\* it is allowed and Forbidden ImageBucket::CannotAccessBucket otherwise; the
\* first configured bucket never stands in for it.
C3_DefaultExplicitBucket ==
    (bpc = "returned" /\ requestType = "Default" /\ event.bucket # Undefined)
        => bucketResult = IF Includes(sourceBuckets, event.bucket)
                          THEN Returned(event.bucket)
                          ELSE ImageHandlerError(403, "ImageBucket::CannotAccessBucket")

\* C3 witness: an explicit bucket outside a non-empty allow-list was refused.
C3_Witness ==
    /\ bpc = "returned" /\ requestType = "Default" /\ event.bucket # Undefined
    /\ Len(sourceBuckets) > 0 /\ ~Includes(sourceBuckets, event.bucket)
    /\ ~bucketResult.ok /\ bucketResult.status = 403

NamedBuckets ==
    IF requestType = "Default"
    THEN IF event.bucket = Undefined THEN {} ELSE {event.bucket}
    ELSE {event.path[i][2] : i \in S3Positions}

\* C6: whatever the request type, a bucket that resolution returns is a member
\* of the allow-list; a bucket named in the request that is not allowed is
\* never returned.
C6_ReturnedBucketIsAllowed ==
    (bpc = "returned" /\ bucketResult.ok)
        => /\ Includes(sourceBuckets, bucketResult.value)
           /\ \A b \in NamedBuckets :
                  ~Includes(sourceBuckets, b) => bucketResult.value # b

\* C6 witness: the request names a bucket outside the allow-list and another
\* bucket was returned.
C6_Witness ==
    /\ bpc = "returned" /\ bucketResult.ok
    /\ \E b \in NamedBuckets : ~Includes(sourceBuckets, b)
    /\ Includes(sourceBuckets, bucketResult.value)

(***************************************************************************)
(* Properties of the edit pipeline (checked under Spec)                    *)
(***************************************************************************)
\* positions of the log whose call was issued by an iteration of the loop of
\* applyEdits
EditCalls == {i \in 1..Len(log) : log[i].by \in EditKeys}

\* position of key k in the mapping
Pos(edits, k) == CHOOSE i \in 1..Len(edits) : edits[i].key = k

\* the resize object needs no further resolution: no ratio is left in it and
\* its width and height are whole numbers
ResizeResolved(resize) ==
    /\ ~Has(resize, "ratio")
    /\ Has(resize, "width") => resize.width = Round(resize.width)
    /\ Has(resize, "height") => resize.height = Round(resize.height)

\* applyEdits ran to the end of its loop and process did not fail afterwards
LoopDone ==
    \/ pc = "toBuffer"
    \/ pc = "done" /\ result.ok /\ editIdx > 0

\* C7 as stated: the engine's resize is issued before the engine operation of
\* any other edit, wherever the resize key sits in the mapping.
C7_Original ==
    \A i \in EditCalls :
        log[i].by # "resize" => \E j \in 1..(i - 1) : log[j].op = "resize"

\* C7 amended: before the engine operation of any edit is issued, applyResize
\* has resolved edits.resize (default injected, width and height rounded,
\* ratio applied), wherever the resize key sits; the engine operations of the
\* edits, resize included, are then issued in mapping order.
C7_ResizeResolvedThenMappingOrder ==
    EditCalls # {} =>
        /\ HasKey(imageRequestInfo.edits, "resize")
        /\ ResizeResolved(Get(imageRequestInfo.edits, "resize"))
        /\ \A i, j \in EditCalls :
               i < j => Pos(imageRequestInfo.edits, log[i].by) <= Pos(imageRequestInfo.edits, log[j].by)

\* C7 witness: two edits without resize; both issued their engine operation,
\* in mapping order, and the injected default resize was issued after them.
C7_Witness ==
    /\ LoopDone /\ pc = "done"
    /\ Len(received.edits) = 2 /\ ~HasKey(received.edits, "resize")
    /\ \E i, j, k \in EditCalls :
          /\ i < j /\ j < k
          /\ log[i].by = received.edits[1].key
          /\ log[j].by = received.edits[2].key
          /\ log[k].op = "resize" /\ log[k].arg = [fit |-> INSIDE]

\* C8: with edits absent or empty and outputFormat undefined, process returns
\* exactly the originalImage bytes, issues no engine, detector or storage call
\* and leaves the request, edits included, as it was.
C8_NoEditsReturnsOriginal ==
    (/\ pc = "done"
     /\ IF Has(received, "edits") THEN received.edits = <<>> ELSE TRUE
     /\ ~Has(received, "outputFormat"))
        => /\ result = Returned(received.originalImage)
           /\ log = <<>>
           /\ imageRequestInfo = received

\* C8 witness: an empty edits mapping, no outputFormat, bytes the engine could
\* not even decode, returned as they came.
C8_Witness ==
    /\ pc = "done"
    /\ Has(received, "edits") /\ Len(received.edits) = 0
    /\ ~Has(received, "outputFormat") /\ Has(received, "effort")
    /\ Corrupt(received)
    /\ result.ok /\ result.value = "corrupt-bytes"

\* the rotate and auto-orient commands issued so far
IsRotation(call) == call.op \in {"rotate", "autoOrient"}

Rotations == SelectSeq(log, IsRotation)

\* the handles instantiateSharpImage has opened so far
IsOpen(call) == call.by = "instantiateSharpImage" /\ call.op = "sharp"

Opens == SelectSeq(log, IsOpen)

\* a static image went through the whole loop of applyEdits
StaticLoopDone == LoopDone /\ ~animated

\* C9 as stated: on a static image with non-empty edits, rotate absent
\* (edits.rotate === undefined) leads to an auto-orient command, rotate null
\* to a metadata-stripped open without rotate or auto-orient command, and a
\* numeric rotate n to exactly one rotate(n) command.
C9_Original ==
    StaticLoopDone =>
        IF ~HasKey(received.edits, "rotate")
        THEN Len(Rotations) = 1 /\ Rotations[1].op = "autoOrient"
        ELSE LET rotate == Get(received.edits, "rotate")
             IN CASE rotate = RotateUndefined ->
                       Len(Rotations) = 1 /\ Rotations[1].op = "autoOrient"
                  [] rotate = RotateNull ->
                       Rotations = <<>> /\ \A i \in 1..Len(Opens) : ~Opens[i].arg.withMetadata
                  [] OTHER ->
                       /\ Len(Rotations) = 1
                       /\ Rotations[1].op = "rotate" /\ Rotations[1].arg = [n |-> rotate.n]

\* C9 amended: on a static image with non-empty edits, a rotate key whose
\* value is undefined leads to exactly one auto-orient command and no rotate;
\* rotate null to a metadata-stripped open without rotate or auto-orient
\* command; a numeric rotate n (0 included) to exactly one rotate(n) command;
\* and a mapping without rotate key to a metadata-preserving open without
\* rotate or auto-orient command.
C9_RotateStates ==
    StaticLoopDone =>
        IF ~HasKey(received.edits, "rotate")
        THEN Rotations = <<>> /\ \A i \in 1..Len(Opens) : Opens[i].arg.withMetadata
        ELSE LET rotate == Get(received.edits, "rotate")
             IN CASE rotate = RotateUndefined ->
                       /\ Len(Rotations) = 1 /\ Rotations[1].op = "autoOrient"
                       /\ \A i \in 1..Len(Opens) : Opens[i].arg.withMetadata
                  [] rotate = RotateNull ->
                       Rotations = <<>> /\ \A i \in 1..Len(Opens) : ~Opens[i].arg.withMetadata
                  [] OTHER ->
                       /\ Len(Rotations) = 1
                       /\ Rotations[1].op = "rotate" /\ Rotations[1].arg = [n |-> rotate.n]
                       /\ \A i \in 1..Len(Opens) : Opens[i].arg.withMetadata

\* C9 witness: rotate 0 on a static image issued rotate(0).
C9_Witness ==
    /\ StaticLoopDone /\ pc = "done"
    /\ HasKey(received.edits, "rotate")
    /\ Get(received.edits, "rotate") = RotateDegrees(0)
    /\ Len(Rotations) = 1 /\ Rotations[1].arg = [n |-> 0]

\* the request handed to process carries rotate: null
NullRotateRequested ==
    /\ Has(received, "edits")
    /\ \E i \in 1..Len(received.edits) :
           received.edits[i] = [key |-> "rotate", value |-> RotateNull]

\* C10: when edits.rotate is null, every handle instantiateSharpImage opens
\* (the first open and the reopen after the downgrade to static) is opened
\* without metadata preservation and without the validation read, and no
\* rotate or auto-orient command is ever issued, animated or not.
C10_NullRotateStripsMetadata ==
    NullRotateRequested =>
        /\ \A i \in 1..Len(Opens) : ~Opens[i].arg.withMetadata
        /\ \A i \in 1..Len(log) :
               ~(log[i].op = "metadata" /\ log[i].arg = [handle |-> "validation"])
        /\ Rotations = <<>>

\* C10 witness: rotate null with the animated flag on a one-page source; the
\* image was opened twice and the request ran to its end.
C10_Witness ==
    /\ NullRotateRequested
    /\ pc = "done" /\ result.ok
    /\ Len(Opens) = 2 /\ Opens[1].arg.animated /\ ~Opens[2].arg.animated

\* C10 witness in animation mode: the source has several pages and the loop
\* skipped the rotate key.
C10_WitnessAnimated ==
    /\ NullRotateRequested
    /\ pc = "done" /\ result.ok /\ animated
    /\ Len(Opens) = 1

\* the keys the loop of applyEdits passes over in animation mode
AnimationSkippedKeys == {"rotate", "smartCrop", "roundCrop", "contentModeration"}

\* the keys of the model whose iteration issues an engine operation whatever
\* the mode: resize, overlayWith, crop and the allow-listed filters
AlwaysAppliedKeys == {"resize", "overlayWith", "crop", "grayscale"}

\* C11: in animation mode no engine or detector operation is issued for the
\* keys rotate, smartCrop, roundCrop and contentModeration and the loop never
\* fails in the iteration of one of them, while every other edit of the
\* mapping (resize, overlayWith, crop, allow-listed filters) has issued its
\* operation once the loop is over, in mapping order.
C11_AnimationSkips ==
    (animated /\ pc \in {"edits", "toBuffer", "done"} /\ editIdx > 0) =>
        LET edits == imageRequestInfo.edits IN
        /\ \A i \in 1..Len(log) : log[i].by \notin AnimationSkippedKeys
        /\ (pc = "done" /\ ~result.ok /\ editIdx <= Len(edits))
               => edits[editIdx].key \notin AnimationSkippedKeys
        /\ LoopDone =>
               /\ \A n \in 1..Len(edits) :
                      edits[n].key \in AlwaysAppliedKeys
                          => \E i \in EditCalls : log[i].by = edits[n].key
               /\ \A i, j \in EditCalls :
                      i < j => Pos(edits, log[i].by) <= Pos(edits, log[j].by)

\* C11 witness: an animated source of several pages with rotate before crop;
\* rotate issued nothing, crop issued its extract, and the request succeeded.
C11_Witness ==
    /\ animated /\ pc = "done" /\ result.ok /\ pages > 1 /\ editIdx > 0
    /\ Len(received.edits) = 2
    /\ received.edits[1] = [key |-> "rotate", value |-> RotateDegrees(90)]
    /\ received.edits[2].key = "crop"
    /\ \E i \in EditCalls : log[i].by = "crop" /\ log[i].op = "extract"
    /\ \A i \in 1..Len(log) : log[i].by # "rotate"

\* applyResize returned without throwing
ResizeApplied == pc \in {"edits", "toBuffer", "done"} /\ editIdx > 0

\* the request handed to process carries a resize edit with a ratio
RatioRequested ==
    /\ Has(received, "edits")
    /\ \E i \in 1..Len(received.edits) :
           received.edits[i].key = "resize" /\ Has(received.edits[i].value, "ratio")

\* C12: for a resize edit with a ratio, each of width and height the edit
\* does not give is taken from the metadata of the image while a given one is
\* kept, both are multiplied by ratio and rounded, fit becomes INSIDE when it
\* was unset and is kept otherwise, and the resolved resize has no ratio
\* field; resize{ratio: 0.5} on a 200 x 100 source resolves to
\* {width: 100, height: 50, fit: INSIDE}.
C12_RatioResolution ==
    (ResizeApplied /\ RatioRequested) =>
        LET given == Get(received.edits, "resize")
            resolved == Get(imageRequestInfo.edits, "resize")
            width == IF Has(given, "width") THEN Round(given.width) ELSE SourceMetadata.width
            height == IF Has(given, "height") THEN Round(given.height) ELSE SourceMetadata.height
        IN /\ DOMAIN resolved = {"width", "height", "fit"}
           /\ resolved.width = RoundProduct(width, given.ratio)
           /\ resolved.height = RoundProduct(height, given.ratio)
           /\ resolved.fit = IF Has(given, "fit") THEN given.fit ELSE INSIDE
           /\ given = [ratio |-> 5]
                  => resolved = [width |-> 1000, height |-> 500, fit |-> INSIDE]

\* the request handed to process carries a resize edit
ResizeRequested ==
    /\ Has(received, "edits")
    /\ \E i \in 1..Len(received.edits) : received.edits[i].key = "resize"

\* width and height of a resize object are positive where it has them
PositiveSize(resize) ==
    /\ Has(resize, "width") => resize.width > 0
    /\ Has(resize, "height") => resize.height > 0

\* C13: for every resize edit, given width and height are rounded to the
\* nearest integer; a resolved width or height (one produced by a ratio
\* included) that is not positive makes applyEdits fail with BadRequest (400)
\* InvalidResizeException, and a resize with a non-positive width or height is
\* never forwarded to the Image Engine.
C13_NonPositiveRejected ==
    /\ (ResizeApplied /\ ResizeRequested) =>
           LET given == Get(received.edits, "resize")
               resolved == Get(imageRequestInfo.edits, "resize")
           IN /\ PositiveSize(resolved)
              /\ (Has(given, "width") /\ ~Has(given, "ratio"))
                     => resolved.width = Round(given.width)
              /\ (Has(given, "height") /\ ~Has(given, "ratio"))
                     => resolved.height = Round(given.height)
    /\ (pc = "done" /\ editIdx = 0 /\ ResizeRequested /\ IsImageHandlerError(result)
            /\ result.code = "InvalidResizeException")
           => result.status = BAD_REQUEST
    /\ \A i \in 1..Len(log) : log[i].op = "resize" => PositiveSize(log[i].arg)

\* the request handed to process carries an overlayWith edit whose bucket is
\* not in the allow-list
ForeignOverlayRequested ==
    /\ Has(received, "edits")
    /\ \E i \in 1..Len(received.edits) :
           /\ received.edits[i].key = "overlayWith"
           /\ ~Includes(sourceBuckets, received.edits[i].value.bucket)

\* the last call issued is the last one applyOverlayWith issues before it
\* asks for the overlay image
AtOverlayFetch ==
    /\ Len(log) > 0
    /\ log[Len(log)] = Call("overlayWith", "metadata", [handle |-> "resized"])

SizeRange == (0 - 150)..150

DecimalStrings == [n \in SizeRange |-> NumberToString(n)]

CalcReturned == fpc = "returned" /\ fnCall.fn = "calcOverlaySizeOption"

\* C15: for every base dimension B and overlay dimension O,
\* calcOverlaySizeOption resolves a plain integer n >= 0 to n, a plain
\* negative integer n to B + n - O, a percentage <p>p with p >= 0 to
\* floor(B * p / 100) and a negative percentage to
\* floor(B + B * p / 100 - O); "-10p" with B = 100 and O = 20 resolves to 70.
C15_OverlayOffsetResolution ==
    CalcReturned =>
        LET B == fnCall.imageSize
            O == fnCall.overlaySize
            editSize == fnCall.editSize
        IN /\ \A n \in SizeRange :
                  /\ (editSize = SizeNumber(n) \/ editSize = SizeString(DecimalStrings[n]))
                         => fnResult = Number(IF n >= 0 THEN n ELSE B + n - O)
                  /\ editSize = SizeString(DecimalStrings[n] \o <<"p">>)
                         => fnResult = Number(IF n >= 0 THEN (B * n) \div 100
                                              ELSE (B * 100 + B * n - O * 100) \div 100)
           /\ (editSize = SizeString(<<"-", "1", "0", "p">>) /\ B = 100 /\ O = 20)
                  => fnResult = Number(70)

\* C15 witness: left "-10p" on a base of 100 with an overlay of 20 gave 70.
C15_Witness ==
    /\ CalcReturned
    /\ fnCall.editSize = SizeString(<<"-", "1", "0", "p">>)
    /\ fnCall.imageSize = 100 /\ fnCall.overlaySize = 20
    /\ fnResult = Number(70)

\* C15 witness, fractional percentage: "-11p" on a base of 33 with an overlay
\* of 7 gave floor(33 - 3.63 - 7) = 22.
C15_WitnessFloor ==
    /\ CalcReturned
    /\ fnCall.editSize = SizeString(<<"-", "1", "1", "p">>)
    /\ fnCall.imageSize = 33 /\ fnCall.overlaySize = 7
    /\ fnResult = Number(22)

(***************************************************************************)
(* Properties of the edit pipeline, continued (checked under Spec)         *)
(***************************************************************************)
\* the composite calls of the overlayWith iteration
OverlayComposites == {i \in 1..Len(log) : log[i].by = "overlayWith" /\ log[i].op = "composite"}

\* C16: when options.left (resp. options.top) of an overlayWith edit cannot
\* be resolved to a number, the descriptor handed to composite carries no
\* left (resp. top) field at all: a descriptor only ever carries resolved
\* numbers, never the raw value of the request.
C16_UnresolvedOffsetsOmitted ==
    \A i \in OverlayComposites :
        /\ Has(log[i].arg, "left") => log[i].arg.left.type = "number"
        /\ Has(log[i].arg, "top") => log[i].arg.top.type = "number"

\* the detectFaces calls answered without any face
NoFaceDetections ==
    {i \in 1..Len(log) : /\ log[i].by = "smartCrop" /\ log[i].op = "detectFaces"
                         /\ log[i].arg.response.FaceDetails = <<>>}

\* the smartCrop edit of the request gives no padding, or padding 0
NoPaddingRequested ==
    \A n \in 1..Len(received.edits) :
        received.edits[n].key = "smartCrop" =>
            IF Has(received.edits[n].value, "padding")
            THEN received.edits[n].value.padding = 0 ELSE TRUE

\* C17: for smartCrop (true or an object) on a W x H image in which the
\* detector finds no face, the whole image is the bounding box whatever
\* faceIndex is: no FaceIndexOutOfRange error is raised, an extract follows
\* the detection, and with padding 0 the area handed to extract is exactly
\* {left: 0, top: 0, width: W, height: H}.
C17_NoFaceCropsWholeImage ==
    \A i \in NoFaceDetections :
        /\ i < Len(log)
        /\ log[i + 1].by = "smartCrop" /\ log[i + 1].op = "extract"
        /\ NoPaddingRequested =>
               log[i + 1].arg = [left |-> 0, top |-> 0,
                                 width |-> Pixels(SourceMetadata.width),
                                 height |-> Pixels(SourceMetadata.height)]
        /\ result.code \notin {"SmartCrop::FaceIndexOutOfRange", "SmartCrop::Error",
                               "SmartCrop::PaddingOutOfBounds"}

\* C17 witness: smartCrop {faceIndex: 1} on a 200 x 100 image without faces;
\* the extract took the whole image and the request succeeded.
C17_Witness ==
    /\ pc = "done" /\ result.ok
    /\ NoFaceDetections # {}
    /\ \E n \in 1..Len(received.edits) :
           received.edits[n] = [key |-> "smartCrop", value |-> [faceIndex |-> 1]]
    /\ \E i \in 1..Len(log) :
           log[i] = Call("smartCrop", "extract", [left |-> 0, top |-> 0, width |-> 200, height |-> 100])

\* the composite calls of the roundCrop iteration
RoundCropComposites == {i \in 1..Len(log) : log[i].by = "roundCrop" /\ log[i].op = "composite"}

\* the parameter of the roundCrop edit when it is given and not negative,
\* else the default
NonNegativeOr(roundCrop, param, default) ==
    IF Has(roundCrop, param)
    THEN IF roundCrop[param] >= 0 THEN roundCrop[param] ELSE default
    ELSE default

\* C18: roundCrop on a W x H image without parameters centres the ellipse at
\* (W/2, H/2) with radii min(W, H)/2; each of rx, ry, top and left is
\* replaced by its explicit value whenever that value is not negative, zero
\* included, and keeps its default when absent or negative.
C18_RoundCropEllipse ==
    \A i \in RoundCropComposites :
        LET roundCrop == Get(received.edits, "roundCrop")
            W == SourceMetadata.width
            H == SourceMetadata.height
            ellipse == log[i].arg.input
        IN /\ ellipse.cx = NonNegativeOr(roundCrop, "left", W \div 2)
           /\ ellipse.cy = NonNegativeOr(roundCrop, "top", H \div 2)
           /\ ellipse.rx = NonNegativeOr(roundCrop, "rx", Min(W, H) \div 2)
           /\ ellipse.ry = NonNegativeOr(roundCrop, "ry", Min(W, H) \div 2)

\* the extract calls of the crop iteration whose rectangle exceeds the image
OutOfBoundsCrops ==
    {i \in 1..Len(log) :
        /\ log[i].by = "crop" /\ log[i].op = "extract"
        /\ \/ log[i].arg.left + log[i].arg.width > Pixels(SourceMetadata.width)
           \/ log[i].arg.top + log[i].arg.height > Pixels(SourceMetadata.height)}

\* C19: when the crop rectangle exceeds the image (left + width > W or
\* top + height > H, for instance {0, 0, W + 1, H}), process fails with
\* BadRequest (400) Crop::AreaOutOfBounds: it neither fails with
\* ProcessingFailure nor returns output bytes.
C19_CropOutOfBoundsIsBadRequest ==
    (pc = "done" /\ OutOfBoundsCrops # {}) =>
        /\ ~result.ok
        /\ result.status = BAD_REQUEST
        /\ result.code = "Crop::AreaOutOfBounds"

\* the calls of the output-format step, and the encoding calls of process
FormatCalls == {i \in 1..Len(log) : log[i].by = "modifyImageOutput"}

EncodeCalls == {i \in 1..Len(log) : log[i].by = "process" /\ log[i].op = "toBuffer"}

\* process got past its output-format step
FormatStepDone ==
    \/ pc = "toBuffer"
    \/ pc = "done" /\ EncodeCalls # {}

\* C20: the output-format step is issued after every edit has been applied
\* (or right after opening, when there is no edit but an outputFormat) and
\* before the encoding; it is a webp conversion carrying effort when
\* outputFormat is WEBP and effort is defined, a plain conversion to the
\* requested format in every other case with outputFormat defined, and no
\* conversion at all when outputFormat is undefined.
C20_OutputFormatStep ==
    /\ \A i \in FormatCalls :
           /\ \A j \in EditCalls : j < i
           /\ \A k \in EncodeCalls : i < k
           /\ \A k \in FormatCalls : k = i
           /\ (pc \in {"toBuffer", "done"} /\ editIdx > 0) => editIdx > Len(imageRequestInfo.edits)
           /\ editIdx = 0 => (i > 1 /\ log[i - 1].by = "instantiateSharpImage" /\ log[i - 1].op = "sharp")
           /\ Has(received, "outputFormat")
           /\ log[i] = IF received.outputFormat = WEBP /\ Has(received, "effort")
                       THEN Call("modifyImageOutput", "webp", [effort |-> received.effort])
                       ELSE Call("modifyImageOutput", "toFormat", [format |-> received.outputFormat])
    /\ FormatStepDone => (FormatCalls # {} <=> Has(received, "outputFormat"))

\* C20 witness: two edits, WEBP with effort 4; the webp conversion was issued
\* after the operations of both edits and right before the encoding.
C20_Witness ==
    /\ pc = "done" /\ result.ok /\ editIdx > 0
    /\ Len(received.edits) = 2 /\ received.edits[1].key = "grayscale" /\ received.edits[2].key = "crop"
    /\ log[Len(log) - 1] = Call("modifyImageOutput", "webp", [effort |-> 4])
    /\ \E i, j \in EditCalls : log[i].by = "grayscale" /\ log[j].by = "crop"

\* C20 witness, no edits: PNG was requested alone; the image was opened,
\* converted and encoded.
C20_WitnessNoEdits ==
    /\ pc = "done" /\ result.ok /\ ~Has(received, "edits")
    /\ Len(log) = 4
    /\ log[3] = Call("modifyImageOutput", "toFormat", [format |-> PNG])
    /\ log[4] = Call("process", "toBuffer", OnImage)

(***************************************************************************)
(* Properties of bucket resolution, continued (checked under BucketSpec)   *)
(***************************************************************************)
\* C21: parseImageBucket called with a request type that is none of DEFAULT,
\* THUMBOR and CUSTOM fails with NotFound (404) ImageBucket::CannotFindBucket,
\* also when the allow-list is not empty: it does not fall back to the first
\* configured bucket.
C21_UnknownRequestTypeNotFound ==
    (bpc = "returned" /\ requestType \notin RequestTypes) =>
        /\ ~bucketResult.ok
        /\ bucketResult.status = NOT_FOUND
        /\ bucketResult.code = "ImageBucket::CannotFindBucket"

\* C21 witness: request type undefined, a path with an allowed s3: segment
\* and a non-empty allow-list; the call failed with 404.
C21_Witness ==
    /\ bpc = "returned" /\ requestType = Undefined
    /\ Len(sourceBuckets) > 0
    /\ \E i \in 1..Len(event.path) :
           IF StartsWithS3(event.path[i]) THEN Includes(sourceBuckets, event.path[i][2]) ELSE FALSE
    /\ bucketResult = ImageHandlerError(NOT_FOUND, "ImageBucket::CannotFindBucket")

(***************************************************************************)
(* Properties of the deployment script (checked under DeploySpec)          *)
(***************************************************************************)
\* the last word of the argument list that is one of words, else the default
RECURSIVE LastOf(_, _, _)
LastOf(list, words, default) ==
    IF list = <<>> THEN default
    ELSE IF list[Len(list)] \in words THEN list[Len(list)]
    ELSE LastOf(SubSeq(list, 1, Len(list) - 1), words, default)

ArgumentGiven(word) == \E i \in 1..Len(args) : args[i] = word

\* the argument list names nothing but commands, environments and --confirm,
\* so that the argument loop consumes it whole and the selection stands
SelectsRun == \A i \in 1..Len(args) : args[i] \in Commands \cup Environments \cup {"--confirm"}

SelectedEnvironment == LastOf(args, Environments, "dev")

SelectedCommand == LastOf(args, Commands, "deploy")

UnconfirmedProdRun ==
    /\ SelectsRun
    /\ SelectedEnvironment = "prod"
    /\ SelectedCommand \in {"deploy", "destroy"}
    /\ ~ArgumentGiven("--confirm")

RanAgainst(cmd, profile) == \E i \in 1..Len(ran) : ran[i] = Ran(cmd, profile)

\* C22: an argument list that selects prod with deploy or destroy and holds
\* no --confirm makes the script exit with status 1 before it sources the
\* environment file, calls aws, builds or runs any cdk command; cdk deploy
\* and cdk destroy against the prod profile are only reached with --confirm.
C22_ProdNeedsConfirm ==
    /\ UnconfirmedProdRun =>
        /\ ran = <<>>
        /\ dpc \in {"args", "confirm", "exit"}
        /\ dpc = "exit" => exitStatus = <<1>>
    /\ (RanAgainst("cdk deploy", "lumberscan-prod") \/ RanAgainst("cdk destroy", "lumberscan-prod"))
        => ArgumentGiven("--confirm")

\* an unconfirmed prod destroy has been turned away
C22_Witness ==
    /\ UnconfirmedProdRun
    /\ SelectedCommand = "destroy"
    /\ dpc = "exit"
    /\ exitStatus = <<1>>

\* a confirmed prod destroy reached cdk destroy
C22_WitnessConfirmed ==
    /\ RanAgainst("cdk destroy", "lumberscan-prod")
    /\ ArgumentGiven("--confirm")
    /\ exitStatus = <<0>>

UnconfirmedDestroyRun ==
    /\ SelectsRun
    /\ SelectedCommand = "destroy"
    /\ ~ArgumentGiven("--confirm")

\* C23: --confirm is required for any destroy: a destroy run in dev or in
\* prod without --confirm is rejected and never reaches cdk destroy.
C23_DestroyNeedsConfirm ==
    UnconfirmedDestroyRun =>
        /\ \A environment \in Environments : ~RanAgainst("cdk destroy", ProfileOf(environment))
        /\ dpc = "exit" => exitStatus # <<0>>

(***************************************************************************)
(* Properties of the face boxes and crop areas (checked under FnSpec)      *)
(***************************************************************************)
BoxReturned == fpc = "returned" /\ fnCall.fn = "getBoundingBox"

\* the detector answered with the face that was asked for
FaceSelected == fnCall.faceIndex < Len(fnCall.response.FaceDetails)

RawBox == fnCall.response.FaceDetails[fnCall.faceIndex + 1].BoundingBox

Clamped(bound) == IF bound < 0 THEN 0 ELSE IF bound > 100 THEN 100 ELSE bound

\* C24: whatever box the detector reports for the selected face, components
\* below 0 or above 1 included, the box returned has left, top, width and
\* height in [0, 1] with left + width <= 1 and top + height <= 1; the box is
\* clamped, never rejected with an error.
C24_BoundingBoxClamped ==
    (BoxReturned /\ FaceSelected) =>
        /\ fnResult.thrown = NoResult
        /\ \A bound \in {"left", "top", "width", "height"} :
              fnResult.box[bound] >= 0 /\ fnResult.box[bound] <= 100
        /\ fnResult.box.left + fnResult.box.width <= 100
        /\ fnResult.box.top + fnResult.box.height <= 100
        /\ fnResult.box.left = Clamped(RawBox.Left)
        /\ fnResult.box.top = Clamped(RawBox.Top)

\* a face reported beyond the right edge and above the top edge was clamped
C24_Witness ==
    /\ BoxReturned
    /\ FaceSelected
    /\ RawBox.Left = 50 /\ RawBox.Width = 125
    /\ RawBox.Top < 0 /\ RawBox.Height = 50
    /\ fnResult.box = [left |-> 50, top |-> 0, width |-> 50, height |-> 50]

CropAreaReturned == fpc = "returned" /\ fnCall.fn = "getCropArea"

CropAreaWithinImage ==
    /\ fnResult.left >= 0
    /\ fnResult.top >= 0
    /\ fnResult.width >= 0
    /\ fnResult.height >= 0
    /\ fnResult.left + fnResult.width <= fnCall.boxSize.width
    /\ fnResult.top + fnResult.height <= fnCall.boxSize.height

\* C25 as stated: for every clamped box, every padding and every image size
\* W x H the crop area returned has left, top, width and height non-negative,
\* with left + width <= W and top + height <= H.
C25_CropAreaWithinImageAnyPadding ==
    CropAreaReturned => CropAreaWithinImage

\* C25: for every clamped box, every non-negative padding and every image
\* size W x H the crop area returned has left, top, width and height
\* non-negative, with left + width <= W and top + height <= H.
C25_CropAreaWithinImage ==
    (CropAreaReturned /\ fnCall.padding >= 0) =>
        /\ CropAreaWithinImage
        /\ LET left == (fnCall.boundingBox.left * fnCall.boxSize.width) \div 100 - fnCall.padding
               top == (fnCall.boundingBox.top * fnCall.boxSize.height) \div 100 - fnCall.padding
           IN /\ fnResult.left = (IF left < 0 THEN 0 ELSE left)
              /\ fnResult.top = (IF top < 0 THEN 0 ELSE top)

\* a padded box that reached beyond the right and bottom edge was fitted
C25_Witness ==
    /\ CropAreaReturned
    /\ fnCall.padding = 10
    /\ fnCall.boundingBox = [left |-> 50, top |-> 50, width |-> 50, height |-> 50]
    /\ fnCall.boxSize = [width |-> 33, height |-> 7]
    /\ fnResult = [left |-> 6, top |-> 0, width |-> 27, height |-> 7]

(***************************************************************************)
(* Properties of content moderation (checked under FnSpec)                 *)
(***************************************************************************)
ModerationReturned == fpc = "returned" /\ fnCall.fn = "applyContentModeration"

\* edits.contentModeration, FALSE standing for an absent key
ModerationEdit ==
    LET edits == fnCall.imageRequestInfo.edits
    IN IF \E i \in 1..Len(edits) : edits[i].key = "contentModeration"
       THEN edits[CHOOSE i \in 1..Len(edits) : edits[i].key = "contentModeration"].value
       ELSE [bool |-> FALSE]

ModerationRequested == ModerationEdit # [bool |-> FALSE]

CallsOf(op) == SelectSeq(fnResult.calls, LAMBDA call : call.op = op)

ExpectedBlurValue ==
    IF "blur" \in DOMAIN ModerationEdit
    THEN IF ModerationEdit.blur % 10 = 0
         THEN ModerationEdit.blur \div 10 ELSE ModerationEdit.blur \div 10 + 1
    ELSE 50

\* a label that counts was detected: one that is in moderationLabels when the
\* list is given, any label when it is not
CountingLabelDetected ==
    /\ "ModerationLabels" \in DOMAIN fnCall.response
    /\ \E i \in 1..Len(fnCall.response.ModerationLabels) :
          "moderationLabels" \in DOMAIN ModerationEdit =>
              \E j \in 1..Len(ModerationEdit.moderationLabels) :
                  ModerationEdit.moderationLabels[j] = fnCall.response.ModerationLabels[i].Name

\* C26: with blurValue = ceil(blur) when blur is supplied and 50 otherwise,
\* blur(blurValue) is issued at most once, and exactly when blurValue is
\* between 0.3 and 1000 and a counting label was detected (one of
\* moderationLabels when the list is given, any label when it is not); the
\* detector is called with minConfidence defaulting to 75; when
\* contentModeration is false or absent neither detector nor blur is called.
C26_ModerationBlurDecision ==
    ModerationReturned =>
        IF ModerationRequested
        THEN /\ Len(CallsOf("detectModerationLabels")) = 1
             /\ CallsOf("detectModerationLabels")[1].arg.MinConfidence =
                    (IF "minConfidence" \in DOMAIN ModerationEdit
                     THEN ModerationEdit.minConfidence ELSE 75)
             /\ Len(CallsOf("blur")) <= 1
             /\ Len(CallsOf("blur")) = 1 <=>
                    /\ ExpectedBlurValue * 10 >= 3
                    /\ ExpectedBlurValue <= 1000
                    /\ CountingLabelDetected
             /\ \A i \in 1..Len(CallsOf("blur")) : CallsOf("blur")[i].arg.sigma = ExpectedBlurValue
        ELSE /\ CallsOf("detectModerationLabels") = <<>>
             /\ CallsOf("blur") = <<>>

\* two labels were detected, both in moderationLabels: one blur of ceil(60.5)
C26_Witness ==
    /\ ModerationReturned
    /\ ModerationRequested
    /\ "moderationLabels" \in DOMAIN ModerationEdit
    /\ "ModerationLabels" \in DOMAIN fnCall.response
    /\ Len(fnCall.response.ModerationLabels) = 2
    /\ Len(CallsOf("blur")) = 1
    /\ CallsOf("blur")[1].arg.sigma = 61

\* a label was detected that is not in moderationLabels: no blur
C26_WitnessOtherLabel ==
    /\ ModerationReturned
    /\ "moderationLabels" \in DOMAIN ModerationEdit
    /\ ModerationEdit.moderationLabels = <<"Alcohol">>
    /\ "ModerationLabels" \in DOMAIN fnCall.response
    /\ fnCall.response.ModerationLabels = <<[Name |-> "Violence"]>>
    /\ Len(CallsOf("detectModerationLabels")) = 1
    /\ CallsOf("blur") = <<>>

(***************************************************************************)
(* Properties of the edit pipeline, continued (checked under Spec)         *)
(***************************************************************************)
\* process took the path with edits and has decided the mode
ModeDecided ==
    /\ pc \in {"applyResize", "edits", "toBuffer", "done"}
    /\ ~NoEdits(received)
    /\ pc \in {"toBuffer", "done"} => editIdx > 0

\* edits.animated when it is defined, else whether the content type is GIF
RequestedAnimation ==
    IF HasKey(received.edits, "animated")
    THEN Get(received.edits, "animated").bool
    ELSE received.contentType = GIF

\* the iteration of the n-th key is over and, unless it was passed over, it
\* has issued a call
AppliedWithCalls(n) ==
    LET entry == imageRequestInfo.edits[n]
    IN /\ n < editIdx
       /\ \/ entry.key \in {"smartCrop", "roundCrop", "contentModeration"} /\ entry.value = Bool(TRUE)
          \/ entry.key = "rotate" /\ entry.value = RotateUndefined

\* C27: the mode process requests is edits.animated when that key is defined
\* and otherwise whether the content type is GIF; when it is on but the
\* opened source reports no pages or at most one, the image is reopened as
\* static and applyEdits runs with isAnimation false, so that rotate,
\* smartCrop, roundCrop and contentModeration are not skipped; the decision
\* stands before the first edit is applied and is the same all through the edits.
C27_AnimationDecision ==
    ModeDecided =>
        /\ animated = (RequestedAnimation /\ pages > 1)
        /\ image.animated = animated
        /\ (RequestedAnimation /\ pages <= 1) =>
              \A n \in 1..Len(imageRequestInfo.edits) :
                  AppliedWithCalls(n) =>
                      \E i \in 1..Len(log) : log[i].by = imageRequestInfo.edits[n].key

\* a GIF that reports no pages: rotate was applied, not skipped
C27_Witness ==
    /\ ModeDecided
    /\ pc = "done" /\ result.ok
    /\ received.contentType = GIF
    /\ ~HasKey(received.edits, "animated")
    /\ pages = 0
    /\ ~animated
    /\ received.edits[1] = [key |-> "rotate", value |-> RotateUndefined]
    /\ \E i \in 1..Len(log) : log[i].by = "rotate" /\ log[i].op = "autoOrient"

\* edits.animated is true on a JPEG of one page: reopened as static
C27_WitnessOverride ==
    /\ ModeDecided
    /\ pc = "edits"
    /\ received.contentType = JPEG
    /\ HasKey(received.edits, "animated") /\ Get(received.edits, "animated") = Bool(TRUE)
    /\ pages = 1
    /\ ~animated
    /\ \E i \in 1..Len(log) : log[i].op = "sharp" /\ log[i].arg.animated
    /\ \E i \in 1..Len(log) : log[i].op = "sharp" /\ ~log[i].arg.animated

\* the keys applyEdits handles by a case of their own, or before the loop
SpeciallyHandledKeys ==
    {"resize", "overlayWith", "smartCrop", "roundCrop", "contentModeration",
     "crop", "animated", "rotate"}

AllowListed(key) == \E i \in 1..Len(SHARP_EDIT_ALLOWLIST_ARRAY) : SHARP_EDIT_ALLOWLIST_ARRAY[i] = key

CallsBy(key) == {i \in 1..Len(log) : log[i].by = key}

\* C28: for every key of the mapping without a case of its own, the engine
\* method of that name is invoked with the value of the edit exactly when the
\* key is in the allow-list of simple filter names; a key outside the
\* allow-list causes no engine call and no error; the animated key never
\* causes an engine call.
C28_KeyDispatch ==
    (pc \in {"edits", "toBuffer", "done"} /\ editIdx > 0 /\ ~NoEdits(received)) =>
        LET edits == imageRequestInfo.edits IN
        /\ \A n \in 1..Len(edits) :
              edits[n].key \notin SpeciallyHandledKeys =>
                  IF n < editIdx /\ AllowListed(edits[n].key)
                  THEN /\ Cardinality(CallsBy(edits[n].key)) = 1
                       /\ \A i \in CallsBy(edits[n].key) :
                              log[i].op = edits[n].key /\ log[i].arg = edits[n].value
                  ELSE CallsBy(edits[n].key) = {}
        /\ (pc = "done" /\ ~result.ok /\ editIdx <= Len(edits))
               => edits[editIdx].key \in SpeciallyHandledKeys
        /\ CallsBy("animated") = {}

\* a key outside the allow-list followed by an allow-listed filter: only the
\* filter reached the engine, and the request succeeded
C28_Witness ==
    /\ pc = "done" /\ result.ok /\ editIdx > 0
    /\ ~NoEdits(received)
    /\ received.edits[1].key = "watermark"
    /\ Len(received.edits) = 2
    /\ received.edits[2].key = "grayscale"
    /\ CallsBy("watermark") = {}
    /\ \E i \in CallsBy("grayscale") : log[i].op = "grayscale" /\ log[i].arg = Bool(TRUE)

\* the first entry of the table of process, in table order, whose pattern the
\* message of the error contains; 0 when there is none
FirstMatching(error) ==
    LET matching == {i \in 1..Len(processErrorMapping) :
                        \E j \in 1..Len(error.message) :
                            error.message[j] = processErrorMapping[i].pattern}
    IN IF matching = {} THEN 0 ELSE CHOOSE i \in matching : \A j \in matching : i <= j

\* what process throws for the error its catch block receives
Remapped(error) ==
    IF "message" \notin DOMAIN error THEN error
    ELSE IF FirstMatching(error) = 0
    THEN [ok |-> FALSE, status |-> 500, code |-> "ProcessingFailure", value |-> Undefined]
    ELSE [ok |-> FALSE,
          status |-> processErrorMapping[FirstMatching(error)].statusCode,
          code |-> processErrorMapping[FirstMatching(error)].errorType,
          value |-> Undefined]

\* C29: an ImageHandlerError raised by an inner step is rethrown by process
\* with its status and code unchanged; any other error is mapped to the first
\* entry of the table whose pattern its message contains, and to 500
\* ProcessingFailure when there is none; process returns no bytes after a
\* step failed, and the failure ends it: no step is run again.
C29_ErrorRemapping ==
    /\ caught # NoResult =>
          /\ pc = "done"
          /\ ~result.ok
          /\ result = Remapped(caught)
    /\ (pc = "done" /\ result.ok) => caught = NoResult
    /\ Cardinality({i \in 1..Len(log) : log[i].by = "process" /\ log[i].op = "toBuffer"}) <= 1

\* the engine reported a bitstream it cannot decode: 400 BadRequest
C29_Witness ==
    /\ pc = "done"
    /\ caught = BitstreamNotSupported
    /\ result.status = 400 /\ result.code = "BadRequest"

\* an overlay from a bucket that is not allowed: the 403 is rethrown as it is
C29_WitnessRethrown ==
    /\ pc = "done"
    /\ caught = ImageHandlerError(FORBIDDEN, "ImageBucket::CannotAccessBucket")
    /\ result = caught

\* an error no pattern matches: 500 ProcessingFailure
C29_WitnessDefault ==
    /\ pc = "done"
    /\ caught = ExtractAreaError
    /\ result.status = 500 /\ result.code = "ProcessingFailure"

\* the request fields process only reads
FrameFields ==
    {"bucket", "key", "requestType", "outputFormat", "effort", "contentType", "originalImage"}

\* the entries of an ordered mapping other than resize, in order
OtherThanResize(edits) == SelectSeq(edits, LAMBDA entry : entry.key # "resize")

ResizeEntries(edits) == SelectSeq(edits, LAMBDA entry : entry.key = "resize")

\* C30: over any request, successful or failing, process leaves bucket, key,
\* requestType, outputFormat, effort, contentType and originalImage unchanged
\* and never modifies the allowed buckets; the only field it may change is
\* edits, and there only resize (the default {fit: INSIDE} joins the mapping
\* when resize is absent; width, height and ratio of a given resize are
\* resolved); where edits is absent or empty it changes nothing at all.
C30_ProcessFrame ==
    pc # "idle" =>
        /\ DOMAIN imageRequestInfo = DOMAIN received
        /\ \A field \in FrameFields \cap DOMAIN received :
              imageRequestInfo[field] = received[field]
        /\ sourceBuckets = <<"allowedBucket001", "test-bucket">>
        /\ NoEdits(received) => imageRequestInfo = received
        /\ ~NoEdits(received) =>
              /\ OtherThanResize(imageRequestInfo.edits) = OtherThanResize(received.edits)
              /\ IF ResizeEntries(received.edits) = <<>>
                 THEN \/ imageRequestInfo.edits = received.edits
                      \/ imageRequestInfo.edits =
                            Append(received.edits, [key |-> "resize", value |-> [fit |-> INSIDE]])
                 ELSE /\ Len(imageRequestInfo.edits) = Len(received.edits)
                      /\ \A n \in 1..Len(received.edits) :
                             imageRequestInfo.edits[n].key = received.edits[n].key

\* a failing request whose ratio was resolved: only edits.resize differs
C30_Witness ==
    /\ pc = "done"
    /\ ~result.ok
    /\ ~NoEdits(received)
    /\ Len(received.edits) = 2
    /\ ResizeEntries(received.edits) # <<>>
    /\ imageRequestInfo.edits # received.edits
    /\ OtherThanResize(imageRequestInfo.edits) = OtherThanResize(received.edits)
    /\ imageRequestInfo.originalImage = received.originalImage

\* a request without resize that succeeded: the default resize joined last
C30_WitnessDefaultResize ==
    /\ pc = "done"
    /\ result.ok
    /\ ~NoEdits(received)
    /\ ResizeEntries(received.edits) = <<>>
    /\ Len(received.edits) = 2
    /\ imageRequestInfo.edits = Append(received.edits, [key |-> "resize", value |-> [fit |-> INSIDE]])
====
